---- MODULE Spec2Model ----
(***************************************************************************)
(* Receipt bot (src/better1.py): the per-user submission sessions          *)
(* (message buffer, debounce finalize task, edit mode, edit-mode expiry)   *)
(* and the ledger reconciliation of process_buffered_messages and          *)
(* save_to_sheets, over a ledger of amount / reference-id cells addressed  *)
(* by (reason sheet, house row, Ethiopian month).                          *)
(*                                                                         *)
(* One chat group is modelled; Users are the senders of that group.        *)
(* Texts that the code handles as strings are kept as what the string      *)
(* operations see: an amount cell is the sequence of its '+'-separated     *)
(* terms, a reference-id cell the sequence of its ','-separated tokens,    *)
(* an amount text the pair (value, number of decimals written).            *)
(***************************************************************************)
EXTENDS Integers, Sequences, FiniteSets, TLC

\* ------------------------------------------------------------------ bounds
MaxMsgs == 2        \* messages buffered in one behaviour (each starts one finalize task)
TickLen == 30       \* seconds that pass in one Tick

\* ------------------------------------------------------- program constants
MESSAGE_BUFFER_DELAY == 30
EDIT_MODE_DELAY == 60

ETHIOPIAN_MONTHS ==
  << "Meskerem", "Tikimt", "Hidar", "Tahsas", "Tir", "Yekatit", "Megabit",
     "Miyazya", "Ginbot", "Sene", "Hamle", "Nehase", "Pagume" >>

MonthNames == { ETHIOPIAN_MONTHS[i] : i \in 1..Len(ETHIOPIAN_MONTHS) }

\* ETHIOPIAN_MONTHS.index(month), 0-based; -1 when the month is not in the list
MonthIndex(month) ==
  IF month \in MonthNames
  THEN (CHOOSE i \in 1..Len(ETHIOPIAN_MONTHS) : ETHIOPIAN_MONTHS[i] = month) - 1
  ELSE -1

\* the reason sheets, in the order of PAYMENT_REASONS (the order sheets.items()
\* is scanned in); the sheets of two of the five reasons are modelled
SheetOrder == << "water", "other" >>
Reasons == { SheetOrder[i] : i \in 1..Len(SheetOrder) }

\* the house rows of every sheet, in sorted order (sorted_houses)
HouseOrder == << "101", "102" >>
Houses == { HouseOrder[i] : i \in 1..Len(HouseOrder) }

Users == { "u1", "u2" }

\* connector words and authorized tokens of validate_beneficiary
Connectors == { "AND", "OR", "ANDOR", "THE", "OF", "TO", "A", "AN", "&", "/" }
AuthorizedTokens ==
  { "SEYOUM", "SEYSOA", "SEYSOM", "SEYSUM", "SEYOAM",
    "ASSEFA", "ASEFA", "ASEFFA",
    "SENAIT", "SENIET", "SENAYT", "SENAITE",
    "DAGNIE", "DAGNE", "DAGINE", "DAGNY", "DAGNHE" }

\* a validation that asks for a full name: two authorized tokens
ValidateFullName(tokens) ==
  Cardinality((tokens \ Connectors) \cap AuthorizedTokens) >= 2

\* validate_beneficiary on the token set of the normalized name: is_valid
ValidateBeneficiary(tokens) ==
  IF tokens = {} THEN FALSE
  ELSE ((tokens \ Connectors) \cap AuthorizedTokens) # {}

\* ------------------------------------------------------------ amount texts
\* an amount text: value v written with d decimals ("500" = (500,0),
\* "500.0" = (500,1), "500.00" = (500,2)); v = 0 is the empty string
NoAmount == [v |-> 0, d |-> 0]
Amt(v, d) == [v |-> v, d |-> d]

\* f"{float(text)}": Python writes a whole float with one decimal
FloatStr(a) == [v |-> a.v, d |-> 1]

\* a number stored in a cell reads back without decimals
NumberText(v) == [v |-> v, d |-> 0]

RECURSIVE SumTerms(_)
SumTerms(terms) ==
  IF terms = <<>> THEN 0 ELSE Head(terms).v + SumTerms(Tail(terms))

RECURSIVE SeqFilter(_, _)
\* [p for p in parts if p != drop]
SeqFilter(parts, drop) ==
  IF parts = <<>> THEN <<>>
  ELSE IF Head(parts) = drop THEN SeqFilter(Tail(parts), drop)
       ELSE <<Head(parts)>> \o SeqFilter(Tail(parts), drop)

SeqToSet(s) == { s[i] : i \in 1..Len(s) }

\* a beneficiary text is a sequence of pieces: words as they are written,
\* and the characters between them
WordPieces == { "Seyoum", "ASSEFA", "dagne", "Kalkidan", "and", "the" }
SeparatorPieces == { " ", ".", "/", "&", "_" }

\* name.upper()
Upper(w) ==
  CASE w = "Seyoum" -> "SEYOUM"
    [] w = "dagne" -> "DAGNE"
    [] w = "Kalkidan" -> "KALKIDAN"
    [] w = "and" -> "AND"
    [] w = "the" -> "THE"
    [] OTHER -> w

\* the characters that re.sub(r'[^\w\s]', ' ', name) and the final split
\* break a token at: white space and punctuation; '&' was replaced by the
\* letters AND before (line 1329) and '_' is a word character
Breaks(p) == p \in { " ", ".", "/" }

RECURSIVE SplitTokens(_, _)
\* normalized.split() of the rest of the text, cur being the token begun
SplitTokens(text, cur) ==
  IF text = <<>> THEN (IF cur = "" THEN <<>> ELSE << cur >>)
  ELSE IF Breaks(Head(text))
  THEN (IF cur = "" THEN <<>> ELSE << cur >>) \o SplitTokens(Tail(text), "")
  ELSE SplitTokens(Tail(text),
                   cur \o (IF Head(text) = "&" THEN "AND" ELSE Upper(Head(text))))

\* normalize_name: the tokens of the normalized name, which is their join
\* by single spaces
NormalizeName(text) == SplitTokens(text, "")

\* validate_beneficiary(beneficiary_text): (is_valid, normalized)
ValidateBeneficiaryText(text) ==
  IF text = <<>> THEN [is_valid |-> FALSE, normalized |-> <<>>]
  ELSE [is_valid |-> ValidateBeneficiary(SeqToSet(NormalizeName(text))),
        normalized |-> NormalizeName(text)]

\* ------------------------------------------- convert_to_ethiopian_month
\* A text is a sequence of lower-case words. Amharic words are written by
\* their transliteration after "am:" ("am:tir" is the Amharic name of Tir,
\* "am:yetir" the same with the prefix ye-, "am:kutir" the word for
\* 'number', "am:bet" the word for 'house').

\* eth_month.lower() of the months of ETHIOPIAN_MONTHS_LIST, in order
EthiopianSpellings ==
  << "meskerem", "tikimt", "hidar", "tahsas", "tir", "yekatit", "megabit",
     "miyazya", "ginbot", "sene", "hamle", "nehase", "pagume" >>

\* entries of AMHARIC_TO_ETHIOPIAN, in the order of the dictionary
AMHARIC_TO_ETHIOPIAN ==
  << << "am:tikimt", "Tikimt" >>, << "am:tikim", "Tikimt" >>,
     << "am:tir", "Tir" >>, << "am:yetir", "Tir" >>, << "am:sene", "Sene" >> >>

\* entries of GREGORIAN_TO_ETHIOPIAN that are neither Ethiopian nor Amharic
\* names, in the order of the dictionary
GREGORIAN_TO_ETHIOPIAN ==
  << << "january", "Tir" >>, << "march", "Megabit" >>, << "september", "Pagume" >>,
     << "jan", "Tir" >>, << "mar", "Megabit" >>, << "sep", "Pagume" >>,
     << "hedar", "Hidar" >> >>

\* the table spellings that occur in a word as substrings (`spelling in
\* text`): in a spelling, itself and the shorter spellings it contains; in
\* another word, the spellings its letters happen to contain
Inside(word) ==
  CASE word = "january" -> { "january", "jan" }
    [] word = "march" -> { "march", "mar" }
    [] word = "september" -> { "september", "sep" }
    [] word = "am:tikimt" -> { "am:tikimt", "am:tikim" }
    [] word = "am:yetir" -> { "am:yetir", "am:tir" }
    [] word = "am:kutir" -> { "am:tir" }
    [] word = "remark" -> { "mar" }
    [] word = "entire" -> { "tir" }
    [] word \in { "house", "507", "am:bet" } -> {}
    [] OTHER -> { word }

\* the first entry of a table one of whose spellings occurs, 0 when none
FirstEntry(table, occurring) ==
  LET hits == { i \in 1..Len(table) : table[i][1] \in occurring } IN
  IF hits = {} THEN 0 ELSE CHOOSE i \in hits : \A j \in hits : i <= j

\* convert_to_ethiopian_month(text): the Ethiopian list, then the Amharic
\* table, then the Gregorian table are searched for a spelling that occurs
\* in the text
ConvertToEthiopianMonth(text) ==
  LET occurring == UNION { Inside(text[i]) : i \in 1..Len(text) }
      eth == { i \in 1..Len(EthiopianSpellings) : EthiopianSpellings[i] \in occurring }
      am == FirstEntry(AMHARIC_TO_ETHIOPIAN, occurring)
      greg == FirstEntry(GREGORIAN_TO_ETHIOPIAN, occurring)
  IN IF eth # {} THEN ETHIOPIAN_MONTHS[CHOOSE i \in eth : \A j \in eth : i <= j]
     ELSE IF am # 0 THEN AMHARIC_TO_ETHIOPIAN[am][2]
     ELSE IF greg # 0 THEN GREGORIAN_TO_ETHIOPIAN[greg][2]
     ELSE ""

\* ------------------------------------------------------------------ ledger
\* a cell pair: amt = the terms of the amount cell (one term: a number,
\* several: the formula "=t1+t2+..."), ref = the tokens of the FT No cell
EmptyCell == [amt |-> <<>>, ref |-> <<>>]
\* the month columns whose cells the model keeps, in sheet order: the months
\* an input can name and the default month of save_to_sheets; the cells of
\* the other months are never addressed and stay empty
LedgerMonths == << "Meskerem", "Tir", "Nehase" >>
CellKeys ==
  Reasons \X Houses \X { LedgerMonths[i] : i \in 1..Len(LedgerMonths) }
EmptyLedger == [k \in CellKeys |-> EmptyCell]

\* what get_all_values() shows for an amount cell: the calculated value
FormattedAmount(terms) ==
  IF terms = <<>> THEN <<>> ELSE << NumberText(SumTerms(terms)) >>

\* what acell(value_render_option='FORMULA') shows, '=' removed: a number,
\* or the terms of the formula as they were written
FormulaAmount(terms) ==
  IF Len(terms) = 1 THEN << NumberText(terms[1].v) >> ELSE terms

\* the text of a reference-id cell written from tokens: ', '.join of a
\* single empty token is the empty cell
RefText(tokens) == IF tokens = << "" >> THEN <<>> ELSE tokens

\* the value stored by update(amount cell) for final_amount: a float is
\* stored as a number, a string containing '+' as a formula
StoredAmount(terms) ==
  IF Len(terms) = 1 THEN << NumberText(terms[1].v) >> ELSE terms

\* ------------------------------------------------ extracted payment data
NoData ==
  [house_number |-> "", amount |-> NoAmount, transaction_id |-> "",
   reason |-> "other", month |-> "", beneficiary |-> {}]

RECURSIVE FirstOf(_, _, _)
\* the first message of the buffer, in order, in which a field is present
FirstOf(buf, field, none) ==
  IF buf = <<>> THEN none
  ELSE IF Head(buf)[field] # none THEN Head(buf)[field]
       ELSE FirstOf(Tail(buf), field, none)

\* the labels that the edit-mode disambiguation looks for in the typed text
\* of a message (lines 1638-1660, 1679): "bare" is a text that is only a
\* number; a photo, and a typed text of no such form, has none
TextLabels == { "bare", "amount", "house", "month" }

\* a photo, or a typed text without a label, carrying the fields of d
Photo(d) == d @@ [labels |-> {}, num |-> NoAmount]

\* the typed messages whose text carries the label, in order
Labelled(buf, label) == SelectSeq(buf, LAMBDA m : label \in m.labels)

\* the typed text is only a number: one typed message, a bare number (two
\* numbers joined by a space are not a number, line 2052)
BareNumberMatch(buf) ==
  /\ Len(SelectSeq(buf, LAMBDA m : m.labels # {})) = 1
  /\ Labelled(buf, "bare") # <<>>

\* an extraction without the edit-mode disambiguation: every field is taken
\* from the first message that carries it
ExtractWithoutDisambiguation(buf, is_edit_mode, original_data) ==
  [house_number   |-> FirstOf(buf, "house_number", ""),
   amount         |-> FirstOf(buf, "amount", NoAmount),
   transaction_id |-> FirstOf(buf, "transaction_id", ""),
   reason         |-> IF \E i \in 1..Len(buf) : buf[i].reason = "water"
                      THEN "water" ELSE "other",
   month          |-> FirstOf(buf, "month", ""),
   beneficiary    |-> FirstOf(buf, "beneficiary", {})]

\* extract_payment_data_buffered on the joined text of the buffered
\* messages: each field is searched in the joined text, so it is taken from
\* the first message that carries it; the reason is the first key of
\* PAYMENT_REASONS one of whose keywords occurs anywhere, 'other' otherwise.
\* In edit mode (lines 1633-1735) a house label in the typed text wins; a
\* bare number, an amount label or a month label keeps the house number of
\* original_data and searches no other text for one; an amount label, then
\* a bare number, is the amount as it was typed
ExtractPaymentDataBuffered(buf, is_edit_mode, original_data) ==
  LET explicit_amount == is_edit_mode /\ Labelled(buf, "amount") # <<>>
      explicit_house == is_edit_mode /\ Labelled(buf, "house") # <<>>
      explicit_month == is_edit_mode /\ Labelled(buf, "month") # <<>>
      bare_number_match == is_edit_mode /\ BareNumberMatch(buf)
      is_bare_number == bare_number_match \/ explicit_amount \/ explicit_month
  IN
  [house_number   |-> IF explicit_house
                      THEN Labelled(buf, "house")[1].house_number
                      ELSE IF is_bare_number
                      THEN IF original_data # <<>>
                           THEN original_data[1].house_number ELSE ""
                      ELSE FirstOf(buf, "house_number", ""),
   amount         |-> IF explicit_amount THEN Labelled(buf, "amount")[1].num
                      ELSE IF bare_number_match THEN Labelled(buf, "bare")[1].num
                      ELSE FirstOf(buf, "amount", NoAmount),
   transaction_id |-> FirstOf(buf, "transaction_id", ""),
   reason         |-> IF \E i \in 1..Len(buf) : buf[i].reason = "water"
                      THEN "water" ELSE "other",
   month          |-> FirstOf(buf, "month", ""),
   beneficiary    |-> FirstOf(buf, "beneficiary", {})]

\* ------------------------------------------------------------ setup_sheets
\* The structure of a reason sheet: "missing" (no worksheet, or one that is
\* not in the 2-column monthly format: it is created or cleared and
\* rebuilt), "noTotals" (headers and house rows, no TOTAL row), "ok".
SheetFormats == { "missing", "noTotals", "ok" }

\* a worksheet that exists and whose first rows are not the headers of the
\* 2-column monthly format (lines 539-587): it may hold payments; it is
\* cleared and rebuilt
OldFormat == "old"

ClearSheet(c, reason) ==
  [k \in CellKeys |-> IF k[1] = reason THEN EmptyCell ELSE c[k]]

RECURSIVE SetupCells(_, _, _)
SetupCells(c, fmt, n) ==
  IF n > Len(SheetOrder) THEN c
  ELSE SetupCells(IF fmt[SheetOrder[n]] \in { "missing", OldFormat }
                  THEN ClearSheet(c, SheetOrder[n]) ELSE c, fmt, n + 1)

\* setup_sheets(chat_id): the cached sheets when there are any; None when
\* the spreadsheet cannot be opened; otherwise every reason sheet is brought
\* to the 2-column format with a TOTAL row and the result is cached
SetupSheets(c, fmt, cached, up) ==
  IF cached THEN [sheets |-> TRUE, cells |-> c, fmt |-> fmt, cached |-> TRUE]
  ELSE IF ~up THEN [sheets |-> FALSE, cells |-> c, fmt |-> fmt, cached |-> FALSE]
  ELSE [sheets |-> TRUE, cells |-> SetupCells(c, fmt, 1),
        fmt |-> [r \in Reasons |-> "ok"], cached |-> TRUE]

\* ------------------------------------------------------ column addressing
AmountColIdx(month_index) == 3 + (month_index * 2)
FtnoColIdx(month_index) == AmountColIdx(month_index) + 1

\* chr(65 + col) + str(row) of the old-entry clearing is a cell address
\* only while 65 + col is a letter
ChrAddressValid(col_idx) == col_idx <= 25

\* chr(code) for the codes 65 + col of a column index of the sheet: the
\* capital letters, then the three characters that follow 'Z' (codes 91-93)
Letters ==
  << "A", "B", "C", "D", "E", "F", "G", "H", "I", "J", "K", "L", "M",
     "N", "O", "P", "Q", "R", "S", "T", "U", "V", "W", "X", "Y", "Z" >>
AfterZ == << "[", "\\", "]" >>
Chr(code) == (Letters \o AfterZ)[code - 64]

\* col_idx_to_letter(idx): the column name as its characters, 0 -> A,
\* 25 -> Z, 26 -> AA
RECURSIVE ColIdxToLetterLoop(_, _)
ColIdxToLetterLoop(idx, result) ==
  IF idx >= 0
  THEN ColIdxToLetterLoop((idx \div 26) - 1, << Chr(65 + (idx % 26)) >> \o result)
  ELSE result
ColIdxToLetter(idx) == ColIdxToLetterLoop(idx, <<>>)

\* the addresses the old-entry clearing computes when it finds the entry in
\* the FT No column col_idx of sheet row idx: amount cell, FT No cell
ClearAddresses(col_idx, idx) ==
  << [col |-> << Chr(65 + (col_idx - 1)) >>, row |-> idx],
     [col |-> << Chr(65 + col_idx) >>, row |-> idx] >>

\* the addresses the write path computes for a month and a sheet row
WriteAddresses(month_index, row_index) ==
  << [col |-> ColIdxToLetter(AmountColIdx(month_index)), row |-> row_index],
     [col |-> ColIdxToLetter(FtnoColIdx(month_index)), row |-> row_index] >>

\* ----------------------------------------------- edit mode: delete old entry
\* sheet.update(amount_cell, [[""]]); sheet.update(ftno_cell, [[""]]) inside
\* try/except: an update with an invalid address raises, the rest is skipped
\* and old_entry_deleted stays False
ClearFoundCell(c, k) ==
  LET mi == MonthIndex(k[3]) IN
  IF ~ChrAddressValid(FtnoColIdx(mi) - 1)
  THEN [cells |-> c, deleted |-> FALSE]
  ELSE LET c1 == [c EXCEPT ![k].amt = <<>>] IN
       IF ~ChrAddressValid(FtnoColIdx(mi))
       THEN [cells |-> c1, deleted |-> FALSE]
       ELSE [cells |-> [c1 EXCEPT ![k].ref = <<>>], deleted |-> TRUE]

NumMonths == Len(LedgerMonths)

\* the n-th cell pair visited in the row of a house: sheets in order,
\* FT No columns 4, 6, ... in order
ScanKey(house, n) ==
  << SheetOrder[((n - 1) \div NumMonths) + 1], house,
     LedgerMonths[((n - 1) % NumMonths) + 1] >>

RECURSIVE ClearScan(_, _, _, _)
ClearScan(c, house, txid, n) ==
  IF n > Len(SheetOrder) * NumMonths THEN c
  ELSE LET k == ScanKey(house, n) IN
       IF txid \in SeqToSet(c[k].ref)
       THEN LET r == ClearFoundCell(c, k) IN
            IF r.deleted THEN r.cells ELSE ClearScan(r.cells, house, txid, n + 1)
       ELSE ClearScan(c, house, txid, n + 1)

\* lines 2272-2316: in edit mode with a transaction ID, the first cell of
\* the row of house_number, over all sheets, whose FT No tokens contain the
\* new transaction ID has both its cells cleared
DeleteOldEntry(c, d, is_edit_mode) ==
  IF is_edit_mode /\ d.transaction_id # ""
  THEN ClearScan(c, d.house_number, d.transaction_id, 1)
  ELSE c

\* ------------------------------------------------------- duplicate check
\* a duplicate check that reads the first sheet only
DuplicateFoundFirstSheet(c, txid) ==
  \E k \in CellKeys : k[1] = SheetOrder[1] /\ txid \in SeqToSet(c[k].ref)

\* lines 2332-2351: an exact token of any FT No cell of any row of any sheet
DuplicateFound(c, txid) ==
  \E k \in CellKeys : txid \in SeqToSet(c[k].ref)

\* ---------------------------------------------------------- final values
\* lines 2423-2479: the terms of final_amount and the tokens of final_txid
\* from current_amount / current_txid, the new data and, in edit mode, the
\* user's last submission (last = <<>> or <<data>>)
FinalAmount(current_amount, d, is_edit_mode, last) ==
  LET amount_value == FloatStr(d.amount)
      remaining_amount ==
        IF is_edit_mode /\ last # <<>>
        THEN IF last[1].amount # NoAmount /\ current_amount # <<>>
             THEN SeqFilter(current_amount, last[1].amount)
             ELSE current_amount
        ELSE IF is_edit_mode THEN <<>> ELSE current_amount
  IN IF remaining_amount # <<>>
     THEN remaining_amount \o << amount_value >>
     ELSE << amount_value >>

FinalTxid(current_txid, d, is_edit_mode, last) ==
  LET remaining_txid ==
        IF is_edit_mode /\ last # <<>>
        THEN IF last[1].transaction_id # "" /\ current_txid # <<>>
             THEN RefText(SeqFilter(current_txid, last[1].transaction_id))
             ELSE current_txid
        ELSE IF is_edit_mode THEN <<>> ELSE current_txid
  IN IF remaining_txid # <<>>
     THEN remaining_txid \o << d.transaction_id >>
     ELSE RefText(<< d.transaction_id >>)

\* lines 2407-2495: read the two cells (the amount by its formula, or, when
\* that read fails, from all_values; the reference ids always from
\* all_values, read before the old entry was cleared), write both
WriteCells(c, all_values, k, d, is_edit_mode, last, acell_ok) ==
  LET current_amount == IF acell_ok THEN FormulaAmount(c[k].amt)
                        ELSE FormattedAmount(all_values[k].amt)
      current_txid == all_values[k].ref
  IN [c EXCEPT ![k] =
        [amt |-> StoredAmount(FinalAmount(current_amount, d, is_edit_mode, last)),
         ref |-> FinalTxid(current_txid, d, is_edit_mode, last)]]

\* a reconciliation that deletes the old entry before it validates the month
ReconcileLedgerClearsFirst(c, d, is_edit_mode, last, acell_ok) ==
  IF d.house_number \notin Houses
  THEN [res |-> "UnknownHouse", cells |-> c]
  ELSE LET cleared == DeleteOldEntry(c, d, is_edit_mode) IN
       IF MonthIndex(d.month) = -1
       THEN [res |-> "UnknownMonth", cells |-> cleared]
       ELSE IF ~is_edit_mode /\ d.transaction_id # ""
               /\ DuplicateFound(cleared, d.transaction_id)
       THEN [res |-> "DuplicateTransaction", cells |-> cleared]
       ELSE [res |-> "SAVED",
             cells |-> WriteCells(cleared, c, << d.reason, d.house_number, d.month >>,
                                  d, is_edit_mode, last, acell_ok)]

\* a reconciliation whose duplicate check runs in edit mode too, before the
\* old entry is deleted
ReconcileLedgerChecksEdits(c, d, is_edit_mode, last, acell_ok) ==
  IF d.house_number \notin Houses
  THEN [res |-> "UnknownHouse", cells |-> c]
  ELSE IF MonthIndex(d.month) = -1
  THEN [res |-> "UnknownMonth", cells |-> c]
  ELSE IF d.transaction_id # "" /\ DuplicateFound(c, d.transaction_id)
  THEN [res |-> "DuplicateTransaction", cells |-> c]
  ELSE [res |-> "SAVED",
        cells |-> WriteCells(DeleteOldEntry(c, d, is_edit_mode), c,
                             << d.reason, d.house_number, d.month >>,
                             d, is_edit_mode, last, acell_ok)]

\* lines 2230-2508, after setup_sheets: locate the row and the column pair,
\* delete the old entry (edit mode), check for a duplicate (new submission),
\* write; the result and the ledger afterwards
ReconcileLedger(c, d, is_edit_mode, last, acell_ok) ==
  IF d.house_number \notin Houses
  THEN [res |-> "UnknownHouse", cells |-> c]
  ELSE IF MonthIndex(d.month) = -1
  THEN [res |-> "UnknownMonth", cells |-> c]
  ELSE LET k == << d.reason, d.house_number, d.month >>
           cleared == DeleteOldEntry(c, d, is_edit_mode)
       IN IF ~is_edit_mode /\ d.transaction_id # ""
             /\ DuplicateFound(cleared, d.transaction_id)
          THEN [res |-> "DuplicateTransaction", cells |-> cleared]
          ELSE [res |-> "SAVED",
                cells |-> WriteCells(cleared, c, k, d, is_edit_mode, last, acell_ok)]

\* the update of lines 2490-2495 that raises in a finalization: none, the
\* update of the amount cell, or the update of the FT No cell
WriteFailures == { "none", "amount", "ref" }

\* lines 2489-2495 when an update raises: the raising update and what
\* follows it are not made, what came before (the deletion of the old
\* entry, the amount cell) stays; cleared is the ledger before the updates,
\* written the ledger both updates would leave
FailedWrite(cleared, written, k, fail) ==
  IF fail = "amount" THEN cleared
  ELSE [cleared EXCEPT ![k].amt = written[k].amt]

\* ---------------------------------------------------------- save_to_sheets
\* save_to_sheets (history scan): a house that has no row saves nothing, an
\* unrecognized month is written under Tir, both cells are read from
\* get_all_values and appended to
SaveToSheets(c, d) ==
  IF d.house_number \notin Houses THEN c
  ELSE LET month == IF d.month \in MonthNames THEN d.month ELSE "Tir"
           k == << d.reason, d.house_number, month >>
           current_amount == FormattedAmount(c[k].amt)
           current_txid == c[k].ref
       IN [c EXCEPT ![k] =
             [amt |-> IF current_amount # <<>>
                      THEN current_amount \o << d.amount >>
                      ELSE << NumberText(d.amount.v) >>,
              ref |-> IF current_txid # <<>>
                      THEN current_txid \o << d.transaction_id >>
                      ELSE RefText(<< d.transaction_id >>)]]

\* ================================================================== state
VARIABLES
  cells,                  \* the ledger: cell pair of every (sheet, house, month)
  sheetFmt,               \* structure of every reason sheet
  sheets_cache,           \* sheets_cache has an entry for the group
  user_message_buffers,   \* user -> buffered messages
  user_buffer_tasks,      \* user -> id of the registered finalize task, 0: none
  user_edit_mode,         \* user -> edit-mode flag
  user_edit_mode_tasks,   \* user -> the edit-mode expiry task
  user_last_submissions,  \* user -> <<>> or <<data of the last saved submission>>
  tasks,                  \* id -> finalize task (process_buffered_messages)
  nmsgs,                  \* messages buffered so far = finalize tasks created
  nscans,                 \* receipts saved by a rescan so far
  quiet,                  \* user -> seconds since their last buffered message
  ev,                     \* the last step taken and its outcome
  preCells,               \* the ledger before the last step
  web_request,            \* the web app: its request in progress, its last submission
  ocr,                    \* a call of extract_text_from_image: attempts, result
  processed_message_ids,  \* the keys of the messages marked as processed
  handling,               \* handle_message: the update being handled, its position
  call                    \* a call of a text function: its argument, its result

vars == << cells, sheetFmt, sheets_cache, user_message_buffers,
           user_buffer_tasks, user_edit_mode, user_edit_mode_tasks,
           user_last_submissions, tasks, nmsgs, nscans, quiet, ev, preCells,
           web_request, ocr, processed_message_ids, handling, call >>

MaxScans == 1       \* receipts saved by handle_rescan_command in one behaviour
MaxRuns == 2        \* finalizations in one behaviour of LedgerSpec

\* ----------------------------------------------------------------- inputs
\* what a message (photo with caption and OCR text) carries of each field
BaseReceipt ==
  [house_number |-> "101", amount |-> Amt(500, 0), transaction_id |-> "FT111",
   reason |-> "water", month |-> "Meskerem",
   beneficiary |-> { "SEYOUM", "ASSEFA" }, labels |-> {}, num |-> NoAmount]

\* a typed message that is only the number 700: no extractor finds a field
\* in it (no amount label or currency, no three-digit number not ending in
\* 0, no name)
BareNumber == [Photo(NoData) EXCEPT !.labels = { "bare" }, !.num = Amt(700, 0)]

Receipts ==
  { BaseReceipt }
  \cup { [BaseReceipt EXCEPT !.house_number = h] : h \in { "102", "999" } }
  \cup { [BaseReceipt EXCEPT !.amount = a] : a \in { NoAmount, Amt(700, 0) } }
  \cup { [BaseReceipt EXCEPT !.transaction_id = t] : t \in { "", "FT222" } }
  \cup { [BaseReceipt EXCEPT !.month = m] : m \in { "", "Nehase" } }
  \cup { [BaseReceipt EXCEPT !.reason = "other"] }
  \cup { [BaseReceipt EXCEPT !.beneficiary = b] :
           b \in { {}, { "KALKIDAN", "TESHOME" } } }
  \cup { BareNumber }

\* the receipts of the session machine: a complete one, one without an
\* amount, one paid to somebody else
SessionReceipts ==
  { BaseReceipt, [BaseReceipt EXCEPT !.amount = NoAmount],
    [BaseReceipt EXCEPT !.beneficiary = { "KALKIDAN", "TESHOME" }] }

\* a buffered message: the receipt and whether the sender was in edit mode
\* when it was buffered
BufMsg(r, is_edit) ==
  [house_number |-> r.house_number, amount |-> r.amount,
   transaction_id |-> r.transaction_id, reason |-> r.reason,
   month |-> r.month, beneficiary |-> r.beneficiary,
   labels |-> r.labels, num |-> r.num, e |-> is_edit]

NoMsg == BufMsg(Photo(NoData), FALSE)

\* a ledger left by an earlier run: two payments accumulated in one cell
PrefilledLedger ==
  [EmptyLedger EXCEPT ![<< "water", "101", "Meskerem" >>] =
     [amt |-> << Amt(300, 0), Amt(200, 0) >>, ref |-> << "FT000", "FT001" >>]]

\* ------------------------------------------------------------------ tasks
TaskIds == 1..MaxMsgs
NoTask  == [st |-> "none", u |-> "", edit |-> FALSE, slept |-> 0, i |-> 0,
            cur |-> NoMsg, valid |-> <<>>, res |-> ""]
Dead    == [NoTask EXCEPT !.st = "dead"]
Live(t) == tasks[t].st \in { "sleep", "copy", "delcopy", "reply", "errreply" }

Delay(is_edit_mode) == IF is_edit_mode THEN EDIT_MODE_DELAY ELSE MESSAGE_BUFFER_DELAY

NoExpiry == [st |-> "none", slept |-> 0]

Min(a, b) == IF a < b THEN a ELSE b

\* task.cancel(): CancelledError is raised at the await the task is
\* suspended at and ends it, except at the await of delete_message
\* (line 1995), whose bare except swallows it: that task goes on
Cancel(ts, id) ==
  IF id = 0 THEN ts
  ELSE IF ts[id].st \in { "sleep", "copy", "reply", "errreply" }
       THEN [ts EXCEPT ![id] = Dead]
       ELSE ts

Event(op, u, res, is_edit, d, old, all_edit) ==
  [op |-> op, u |-> u, res |-> res, edit |-> is_edit, d |-> d, old |-> old,
   allEdit |-> all_edit]

\* ------------------------------------------------------------------- Init
\* the state after start-up: no session, a spreadsheet in one of the given
\* conditions, empty or left by an earlier run
\* no call of extract_text_from_image yet
NoCall == [pc |-> "idle", who |-> "", attempt |-> 0, log |-> <<>>, result |-> ""]

\* the web process (webapp/api.py): no request in progress, no last
\* submission of its user (its own user_last_submissions), its own
\* sheets_cache empty, no request served
NoRequest == [st |-> "idle", req |-> <<>>, last |-> <<>>, cached |-> FALSE, n |-> 0]

\* the message ids of the chat whose updates are delivered
MaxMessageId == 2
MessageIds == 1..MaxMessageId

\* handle_message is handling no update; MIN_MESSAGE_ID is not configured;
\* appended counts the appends of each message to a buffer, failed tells
\* that the download raised or the OCR returned no text in the last handling
NoUpdate ==
  [pc |-> "idle", message_id |-> 0, u |-> "", caption |-> FALSE,
   MIN_MESSAGE_ID |-> 0, appended |-> [m \in MessageIds |-> 0], n |-> 0,
   failed |-> FALSE, res |-> ""]

\* no text function was called
NoTextCall == [fn |-> "", arg |-> <<>>, out |-> <<>>, st |-> ""]

InitWith(formats, ledgers) ==
  /\ \E f \in formats :
       /\ sheetFmt = [r \in Reasons |-> f]
       /\ cells \in IF f = "missing" THEN { EmptyLedger } ELSE ledgers
  /\ sheets_cache = FALSE
  /\ user_message_buffers = [u \in Users |-> <<>>]
  /\ user_buffer_tasks = [u \in Users |-> 0]
  /\ user_edit_mode = [u \in Users |-> FALSE]
  /\ user_edit_mode_tasks = [u \in Users |-> NoExpiry]
  /\ user_last_submissions = [u \in Users |-> <<>>]
  /\ tasks = [t \in TaskIds |-> NoTask]
  /\ nmsgs = 0
  /\ nscans = 0
  /\ web_request = NoRequest
  /\ ocr = NoCall
  /\ processed_message_ids = {}
  /\ handling = NoUpdate
  /\ call = NoTextCall
  /\ quiet = [u \in Users |-> EDIT_MODE_DELAY]
  /\ ev = Event("init", "", "", FALSE, NoData, <<>>, FALSE)
  /\ preCells = cells

\* the session machine starts with worksheets already set up
Init == InitWith({ "ok" }, { EmptyLedger })

\* the ledger machine starts with worksheets absent, without a TOTAL row or
\* complete; payments are held by worksheets of the 2-column format
LedgerInit == InitWith(SheetFormats, { EmptyLedger, PrefilledLedger })

\* the event recorded by a step that is neither the start nor the end of a
\* handler
Internal == Event("internal", "", "", FALSE, NoData, <<>>, FALSE)

\* ================================================================ actions
\* the outcome the registered finalize task of u has decided and is
\* delivering, "" when it has decided none
PendingOutcome(u) ==
  IF user_buffer_tasks[u] # 0 /\ tasks[user_buffer_tasks[u]].st \in { "reply", "errreply" }
  THEN tasks[user_buffer_tasks[u]].res
  ELSE ""

\* handle_message, from the append to the buffer on (lines 2738-2771): the
\* message is buffered, the registered finalize task is cancelled, the
\* expiry task is cancelled when the sender is in edit mode, a new finalize
\* task is created and registered, the key of the message is marked as
\* processed
BufferMessage(u, r, message_key) ==
  /\ nmsgs < MaxMsgs
  /\ processed_message_ids' = processed_message_ids \cup { message_key }
  /\ LET is_edit == user_edit_mode[u]
         id == nmsgs + 1
     IN /\ user_message_buffers' =
             [user_message_buffers EXCEPT ![u] = Append(@, BufMsg(r, is_edit))]
        /\ tasks' = [Cancel(tasks, user_buffer_tasks[u]) EXCEPT ![id] =
                       [NoTask EXCEPT !.st = "sleep", !.u = u, !.edit = is_edit]]
        /\ user_buffer_tasks' = [user_buffer_tasks EXCEPT ![u] = id]
        /\ user_edit_mode_tasks' =
             IF is_edit THEN [user_edit_mode_tasks EXCEPT ![u] = NoExpiry]
             ELSE user_edit_mode_tasks
        /\ nmsgs' = id
        /\ quiet' = [quiet EXCEPT ![u] = 0]
        /\ ev' = Event("message", u, PendingOutcome(u), is_edit, r,
                       user_last_submissions[u], is_edit)
  /\ preCells' = cells
  /\ UNCHANGED << cells, sheetFmt, sheets_cache, user_edit_mode,
                  user_last_submissions, nscans, web_request, ocr, call >>

\* handle_message for a text message that passes the filters: nothing is
\* awaited before the append; the message is the next of the chat
HandleMessage(u, r) ==
  /\ BufferMessage(u, r, nmsgs + 1)
  /\ UNCHANGED handling

\* an edit request that does not look for a last submission
ActivateEditUnchecked(u, op) ==
  /\ user_edit_mode' = [user_edit_mode EXCEPT ![u] = TRUE]
  /\ user_edit_mode_tasks' =
       [user_edit_mode_tasks EXCEPT ![u] = [st |-> "sleep", slept |-> 0]]
  /\ ev' = Event(op, u, "activated", TRUE, NoData, user_last_submissions[u], FALSE)
  /\ preCells' = cells
  /\ UNCHANGED << cells, sheetFmt, sheets_cache, user_message_buffers,
                  user_buffer_tasks, user_last_submissions, tasks, nmsgs,
                  nscans, web_request, ocr, quiet,
                  processed_message_ids, handling, call >>

\* handle_edit_command / handle_edit_button after the group, topic and
\* button-owner checks: without a last submission nothing changes; with one
\* the edit-mode flag is set and the expiry task is replaced
ActivateEdit(u, op) ==
  /\ IF user_last_submissions[u] = <<>>
     THEN /\ ev' = Event(op, u, "denied", user_edit_mode[u], NoData, <<>>, FALSE)
          /\ UNCHANGED << user_edit_mode, user_edit_mode_tasks >>
     ELSE /\ user_edit_mode' = [user_edit_mode EXCEPT ![u] = TRUE]
          /\ user_edit_mode_tasks' =
               [user_edit_mode_tasks EXCEPT ![u] = [st |-> "sleep", slept |-> 0]]
          /\ ev' = Event(op, u, "activated", TRUE, NoData,
                         user_last_submissions[u], FALSE)
  /\ preCells' = cells
  /\ UNCHANGED << cells, sheetFmt, sheets_cache, user_message_buffers,
                  user_buffer_tasks, user_last_submissions, tasks, nmsgs,
                  nscans, web_request, ocr, quiet,
                  processed_message_ids, handling, call >>

HandleEditCommand(u) == ActivateEdit(u, "edit_command")

HandleEditButton(u) == ActivateEdit(u, "edit_button")

\* time passes: every asyncio.sleep in progress and every quiet period grows
Tick ==
  /\ \/ \E t \in TaskIds : tasks[t].st = "sleep" /\ tasks[t].slept < Delay(tasks[t].edit)
     \/ \E u \in Users : /\ user_edit_mode_tasks[u].st = "sleep"
                         /\ user_edit_mode_tasks[u].slept < EDIT_MODE_DELAY
  /\ tasks' = [t \in TaskIds |->
                 IF tasks[t].st = "sleep"
                 THEN [tasks[t] EXCEPT !.slept = Min(@ + TickLen, Delay(tasks[t].edit))]
                 ELSE tasks[t]]
  /\ user_edit_mode_tasks' = [u \in Users |->
                 IF user_edit_mode_tasks[u].st = "sleep"
                 THEN [user_edit_mode_tasks[u] EXCEPT
                         !.slept = Min(@ + TickLen, EDIT_MODE_DELAY)]
                 ELSE user_edit_mode_tasks[u]]
  /\ quiet' = [u \in Users |-> Min(quiet[u] + TickLen, EDIT_MODE_DELAY)]
  /\ UNCHANGED << cells, sheetFmt, sheets_cache, user_message_buffers,
                  user_buffer_tasks, user_edit_mode, user_last_submissions,
                  nmsgs, nscans, web_request, ocr,
                  processed_message_ids, handling, call >>
  /\ ev' = Internal
  /\ preCells' = cells

\* expire_edit_mode after its sleep: the flag is cleared when the user is
\* still in edit mode with no buffered message; the task reference is removed
ExpireEditMode(u) ==
  /\ user_edit_mode_tasks[u].st = "sleep"
  /\ user_edit_mode_tasks[u].slept >= EDIT_MODE_DELAY
  /\ LET expires == user_edit_mode[u] /\ user_message_buffers[u] = <<>>
     IN /\ user_edit_mode' =
             IF expires THEN [user_edit_mode EXCEPT ![u] = FALSE] ELSE user_edit_mode
        /\ ev' = Event("expire", u, IF expires THEN "expired" ELSE "kept",
                       user_edit_mode[u], NoData, user_last_submissions[u], FALSE)
  /\ user_edit_mode_tasks' = [user_edit_mode_tasks EXCEPT ![u] = NoExpiry]
  /\ preCells' = cells
  /\ UNCHANGED << cells, sheetFmt, sheets_cache, user_message_buffers,
                  user_buffer_tasks, user_last_submissions, tasks, nmsgs,
                  nscans, web_request, ocr, quiet,
                  processed_message_ids, handling, call >>

\* a clean-up that is not keyed by the user: the sessions of the whole group
\* are removed
CleanupGroup(u) ==
  /\ user_message_buffers' = [v \in Users |-> <<>>]
  /\ user_buffer_tasks' = [v \in Users |-> 0]
  /\ user_edit_mode' = [v \in Users |-> FALSE]

\* the clean-up of lines 2591-2600 (and of the rejections of lines 2138-2145,
\* 2194-2200, 2382-2388): buffer, task reference and edit-mode flag removed
CleanupSession(u) ==
  /\ user_message_buffers' = [user_message_buffers EXCEPT ![u] = <<>>]
  /\ user_buffer_tasks' = [user_buffer_tasks EXCEPT ![u] = 0]
  /\ user_edit_mode' = [user_edit_mode EXCEPT ![u] = FALSE]

\* the clean-up of lines 2017-2021: buffer and task reference removed
CleanupBuffer(u) ==
  /\ user_message_buffers' = [user_message_buffers EXCEPT ![u] = <<>>]
  /\ user_buffer_tasks' = [user_buffer_tasks EXCEPT ![u] = 0]
  /\ UNCHANGED user_edit_mode

\* process_buffered_messages after asyncio.sleep(delay): an empty buffer
\* ends the task, otherwise the existence check of the first message starts
Wake(t) ==
  /\ tasks[t].st = "sleep"
  /\ tasks[t].slept >= Delay(tasks[t].edit)
  /\ LET u == tasks[t].u IN
     IF user_message_buffers[u] = <<>>
     THEN /\ tasks' = [tasks EXCEPT ![t] = Dead]
          /\ ev' = Event("finalize_end", u, "EmptyBuffer", tasks[t].edit, NoData,
                         user_last_submissions[u], FALSE)
     ELSE /\ tasks' = [tasks EXCEPT ![t] =
                         [@ EXCEPT !.st = "copy", !.i = 1,
                                   !.cur = user_message_buffers[u][1]]]
          /\ ev' = Internal
  /\ preCells' = cells
  /\ UNCHANGED << cells, sheetFmt, sheets_cache, user_message_buffers,
                  user_buffer_tasks, user_edit_mode, user_edit_mode_tasks,
                  user_last_submissions, nmsgs, nscans, web_request, ocr, quiet,
                  processed_message_ids, handling, call >>

\* lines 2067-2508 as a function of the ledger, the valid messages, the mode
\* and the caller's last submission: the data extracted, the branch taken
\* and the ledger that results
FinalizeOutcome(c, fmt, cached, valid, is_edit_mode, last, acell_ok, up) ==
  LET d == ExtractPaymentDataBuffered(valid, is_edit_mode,
                                      IF is_edit_mode THEN last ELSE <<>>)
      validated == d.amount # NoAmount /\ ValidateBeneficiary(d.beneficiary)
      su == SetupSheets(c, fmt, cached, up)
      rec == ReconcileLedger(su.cells, d, is_edit_mode, last, acell_ok)
  IN [ d |-> d,
       res |-> IF d.amount = NoAmount THEN "MissingAmount"
               ELSE IF ~ValidateBeneficiary(d.beneficiary) THEN "BeneficiaryUnverified"
               ELSE IF ~su.sheets THEN "LedgerUnavailable"
               ELSE rec.res,
       cells |-> IF validated /\ su.sheets THEN rec.cells
                 ELSE IF validated THEN su.cells ELSE c,
       fmt |-> IF validated THEN su.fmt ELSE fmt,
       cached |-> IF validated THEN su.cached ELSE cached ]

\* lines 2029-2508 without a suspension: the buffer becomes the valid
\* messages, the mode is the argument or the global flag, the data are
\* extracted and validated, the ledger is reconciled; the task is then
\* suspended in the reply of the branch it took
Finalize(t, valid, acell_ok, up) ==
  LET u == tasks[t].u
      is_edit_mode == tasks[t].edit \/ user_edit_mode[u]
      last == user_last_submissions[u]
      out == FinalizeOutcome(cells, sheetFmt, sheets_cache, valid, is_edit_mode,
                             last, acell_ok, up)
  IN /\ user_message_buffers' = [user_message_buffers EXCEPT ![u] = valid]
     /\ cells' = out.cells
     /\ sheetFmt' = out.fmt
     /\ sheets_cache' = out.cached
     /\ user_last_submissions' =
          IF out.res = "SAVED"
          THEN [user_last_submissions EXCEPT ![u] = << out.d >>]
          ELSE user_last_submissions
     /\ tasks' = [tasks EXCEPT ![t] =
                    [@ EXCEPT !.st = "reply", !.res = out.res, !.valid = <<>>,
                              !.cur = NoMsg, !.i = 0]]
     /\ ev' = Event("finalize", u, out.res, is_edit_mode, out.d, last,
                    \A j \in 1..Len(valid) : valid[j].e)
     /\ UNCHANGED << user_buffer_tasks, user_edit_mode >>

\* the for loop of lines 1982-2012 after one message was checked, and what
\* follows the loop: the next message of the buffer, or, with no valid
\* message, the clean-up of lines 2015-2022, or the finalization
LoopNext(t, valid, acell_ok, up) ==
  LET u == tasks[t].u
      i == tasks[t].i + 1
  IN IF i <= Len(user_message_buffers[u])
     THEN /\ tasks' = [tasks EXCEPT ![t] =
                         [@ EXCEPT !.st = "copy", !.i = i, !.valid = valid,
                                   !.cur = user_message_buffers[u][i]]]
          /\ ev' = Internal
          /\ UNCHANGED << cells, sheetFmt, sheets_cache, user_message_buffers,
                          user_buffer_tasks, user_edit_mode, user_last_submissions >>
     ELSE IF valid = <<>>
     THEN /\ CleanupBuffer(u)
          /\ tasks' = [tasks EXCEPT ![t] = Dead]
          /\ ev' = Event("finalize_end", u, "AllDeleted", tasks[t].edit, NoData,
                         user_last_submissions[u], FALSE)
          /\ UNCHANGED << cells, sheetFmt, sheets_cache, user_last_submissions >>
     ELSE Finalize(t, valid, acell_ok, up)

CopyOutcomes == { "ok", "deleted", "error" }

\* await copy_message returns: the copy exists (its deletion is awaited
\* next), the message was deleted by the user (skipped), or another error
\* (the message is kept)
CopyMessage(t, outcome, acell_ok, up) ==
  /\ tasks[t].st = "copy"
  /\ preCells' = cells
  /\ UNCHANGED << user_edit_mode_tasks, nmsgs, nscans, web_request, ocr, quiet,
                  processed_message_ids, handling, call >>
  /\ IF outcome = "ok"
     THEN /\ tasks' = [tasks EXCEPT ![t].st = "delcopy"]
          /\ ev' = Internal
          /\ UNCHANGED << cells, sheetFmt, sheets_cache, user_message_buffers,
                          user_buffer_tasks, user_edit_mode, user_last_submissions >>
     ELSE IF outcome = "deleted"
     THEN LoopNext(t, tasks[t].valid, acell_ok, up)
     ELSE LoopNext(t, Append(tasks[t].valid, tasks[t].cur), acell_ok, up)

\* await delete_message of the copy returns or raises (anything it raises,
\* a cancellation included, is swallowed): the message is kept
DeleteCopy(t, acell_ok, up) ==
  /\ tasks[t].st = "delcopy"
  /\ preCells' = cells
  /\ UNCHANGED << user_edit_mode_tasks, nmsgs, nscans, web_request, ocr, quiet,
                  processed_message_ids, handling, call >>
  /\ LoopNext(t, Append(tasks[t].valid, tasks[t].cur), acell_ok, up)

InTryBlock(res) ==
  res \in { "DuplicateTransaction", "UnknownHouse", "UnknownMonth", "SAVED" }

\* the reply of the branch taken returns (ok) or raises: the rejections
\* for amount, beneficiary and duplicate clean the session up and return,
\* the house and month rejections return at once, the other branches reach
\* the clean-up of lines 2591-2600; a reply that raises inside the try block
\* of lines 2221-2565 leads to the reply of the except clause, outside of it
\* it ends the task
Reply(t, ok) ==
  /\ tasks[t].st = "reply"
  /\ LET u == tasks[t].u
         res == tasks[t].res
     IN IF ok
        THEN /\ tasks' = [tasks EXCEPT ![t] = Dead]
             /\ ev' = Event("finalize_end", u, res, FALSE, NoData,
                            user_last_submissions[u], FALSE)
             /\ IF res \in { "UnknownHouse", "UnknownMonth" }
                THEN UNCHANGED << user_message_buffers, user_buffer_tasks,
                                  user_edit_mode >>
                ELSE CleanupSession(u)
        ELSE /\ tasks' = [tasks EXCEPT ![t] =
                            IF InTryBlock(res) THEN [@ EXCEPT !.st = "errreply"]
                            ELSE Dead]
             /\ ev' = Event(IF InTryBlock(res) THEN "reply_failed"
                            ELSE "finalize_crash", u, res, FALSE, NoData,
                            user_last_submissions[u], FALSE)
             /\ UNCHANGED << user_message_buffers, user_buffer_tasks,
                             user_edit_mode >>
  /\ preCells' = cells
  /\ UNCHANGED << cells, sheetFmt, sheets_cache, user_edit_mode_tasks,
                  user_last_submissions, nmsgs, nscans, web_request, ocr, quiet,
                  processed_message_ids, handling, call >>

\* the reply of the except clause (lines 2565-2577) returns and the
\* clean-up of lines 2591-2600 follows, or raises and ends the task
ErrReply(t, ok) ==
  /\ tasks[t].st = "errreply"
  /\ LET u == tasks[t].u
         res == tasks[t].res
     IN /\ tasks' = [tasks EXCEPT ![t] = Dead]
        /\ ev' = Event(IF ok THEN "finalize_error_end" ELSE "finalize_crash",
                       u, res, FALSE, NoData, user_last_submissions[u], FALSE)
        /\ IF ok THEN CleanupSession(u)
           ELSE UNCHANGED << user_message_buffers, user_buffer_tasks,
                             user_edit_mode >>
  /\ preCells' = cells
  /\ UNCHANGED << cells, sheetFmt, sheets_cache, user_edit_mode_tasks,
                  user_last_submissions, nmsgs, nscans, web_request, ocr, quiet,
                  processed_message_ids, handling, call >>

\* handle_rescan_command for one photo (lines 4656-4689): the data of the
\* photo are extracted; with an amount and a transaction ID, and sheets,
\* save_to_sheets is called, without a duplicate check
RescanSave(r, up) ==
  /\ nscans < MaxScans
  /\ nscans' = nscans + 1
  /\ LET d == ExtractPaymentDataBuffered(<< BufMsg(r, FALSE) >>, FALSE, <<>>)
         su == SetupSheets(cells, sheetFmt, sheets_cache, up)
         complete == d.amount # NoAmount /\ d.transaction_id # ""
         arg == [d EXCEPT !.house_number = IF @ = "" THEN "Unknown" ELSE @,
                          !.month = IF @ = "" THEN "Tir" ELSE @]
     IN /\ cells' = IF complete /\ su.sheets THEN SaveToSheets(su.cells, arg)
                    ELSE IF complete THEN su.cells ELSE cells
        /\ sheetFmt' = IF complete THEN su.fmt ELSE sheetFmt
        /\ sheets_cache' = IF complete THEN su.cached ELSE sheets_cache
        /\ ev' = Event("rescan", "",
                       IF complete /\ su.sheets /\ arg.house_number \in Houses
                       THEN "saved" ELSE "skipped", FALSE, arg, <<>>, FALSE)
  /\ preCells' = cells
  /\ UNCHANGED << user_message_buffers, user_buffer_tasks, user_edit_mode,
                  user_edit_mode_tasks, user_last_submissions, tasks, nmsgs, quiet,
                  web_request, ocr,
                  processed_message_ids, handling, call >>

\* the outcome of a finalization in which the update `fail` raises: the
\* exception is caught at line 2565, so the result is the error reply and
\* the ledger keeps the updates made before the one that raised
FinalizeRunOutcome(c, fmt, cached, valid, is_edit_mode, last, acell_ok, up, fail) ==
  LET done == FinalizeOutcome(c, fmt, cached, valid, is_edit_mode, last, acell_ok, up)
  IN IF done.res = "SAVED" /\ fail # "none"
     THEN [done EXCEPT
             !.res = "SaveFailed",
             !.cells = FailedWrite(
                         DeleteOldEntry(SetupSheets(c, fmt, cached, up).cells,
                                        done.d, is_edit_mode),
                         done.cells,
                         << done.d.reason, done.d.house_number, done.d.month >>,
                         fail)]
     ELSE done

\* handle_message and the finalize task it creates, run to its end with no
\* other update in between: the delay passes, every buffered message still
\* exists, the ledger is reconciled and the reply is delivered. The house and
\* month rejections return before the clean-up; every other branch ends in it.
\* An update that raises (fail) is caught at line 2565: the error is replied,
\* the last submission is not recorded and the clean-up follows
FinalizeRun(u, r, acell_ok, up, fail) ==
  /\ nmsgs < MaxRuns
  /\ \A t \in TaskIds : ~Live(t)
  /\ fail = "none" \/ up
  /\ LET is_edit == user_edit_mode[u]
         valid == Append(user_message_buffers[u], BufMsg(r, is_edit))
         last == user_last_submissions[u]
     IN \E out \in { FinalizeRunOutcome(cells, sheetFmt, sheets_cache, valid,
                                         is_edit, last, acell_ok, up, fail) } :
        LET returns_early == out.res \in { "UnknownHouse", "UnknownMonth" } IN
        /\ fail = "none" \/ out.res = "SaveFailed"
        /\ cells' = out.cells
        /\ sheetFmt' = out.fmt
        /\ sheets_cache' = out.cached
        /\ user_last_submissions' =
             IF out.res = "SAVED"
             THEN [user_last_submissions EXCEPT ![u] = << out.d >>]
             ELSE user_last_submissions
        /\ user_message_buffers' =
             [user_message_buffers EXCEPT ![u] = IF returns_early THEN valid ELSE <<>>]
        /\ user_edit_mode' =
             [user_edit_mode EXCEPT ![u] = IF returns_early THEN @ ELSE FALSE]
        /\ user_edit_mode_tasks' =
             IF is_edit THEN [user_edit_mode_tasks EXCEPT ![u] = NoExpiry]
             ELSE user_edit_mode_tasks
        /\ ev' = Event("finalize", u, out.res, is_edit, out.d, last,
                       \A j \in 1..Len(valid) : valid[j].e)
  /\ nmsgs' = nmsgs + 1
  /\ processed_message_ids' = processed_message_ids \cup { nmsgs + 1 }
  /\ preCells' = cells
  /\ UNCHANGED << user_buffer_tasks, tasks, nscans, web_request, ocr, quiet,
                  handling, call >>

\* ------------------------------------- lines 2035-2088 on their own
\* typed texts: the number 700; the number 407, which read as a caption would
\* be a house number; 'amount: 700', in which extract_amount_from_receipt
\* finds 700.0; 'month: tir'; 'house: 102'; 'house: 102 amount: 700'
TypedTexts ==
  { BareNumber,
    [Photo(NoData) EXCEPT !.labels = { "bare" }, !.num = Amt(407, 0),
                          !.house_number = "407"],
    [Photo(NoData) EXCEPT !.labels = { "amount" }, !.num = Amt(700, 0),
                          !.amount = FloatStr(Amt(700, 0))],
    [Photo(NoData) EXCEPT !.labels = { "month" }, !.month = "Tir"],
    [Photo(NoData) EXCEPT !.labels = { "house" }, !.house_number = "102"],
    [Photo(NoData) EXCEPT !.labels = { "house", "amount" }, !.house_number = "102",
                          !.num = Amt(700, 0), !.amount = FloatStr(Amt(700, 0))] }

\* photos: a complete receipt whose caption or OCR text reads house 102, one
\* that reads no house number
PhotoTexts ==
  { [BaseReceipt EXCEPT !.house_number = "102"],
    [BaseReceipt EXCEPT !.house_number = ""] }

\* the data of a last submission: those saved from the complete receipt
BaseData == ExtractPaymentDataBuffered(<< BufMsg(BaseReceipt, FALSE) >>, FALSE, <<>>)

\* the buffers of at most two messages
ExtractBuffers ==
  LET msgs == { BufMsg(r, TRUE) : r \in TypedTexts \cup PhotoTexts } IN
  { << >> } \cup { << m >> : m \in msgs } \cup { << m, n >> : m \in msgs, n \in msgs }

\* the state in which lines 2035-2088 find the maps of the module: a buffer,
\* the edit-mode flag, which is set only for a user who has a last submission
ExtractInit ==
  /\ cells = EmptyLedger
  /\ sheetFmt = [r \in Reasons |-> "ok"]
  /\ sheets_cache = FALSE
  /\ \E buf \in ExtractBuffers, is_edit \in BOOLEAN,
        last \in { <<>>, << BaseData >>,
                   << [BaseData EXCEPT !.house_number = "102"] >> } :
       /\ is_edit => last # <<>>
       /\ user_message_buffers = [u \in Users |-> IF u = "u1" THEN buf ELSE <<>>]
       /\ user_edit_mode = [u \in Users |-> u = "u1" /\ is_edit]
       /\ user_last_submissions = [u \in Users |-> IF u = "u1" THEN last ELSE <<>>]
  /\ user_buffer_tasks = [u \in Users |-> 0]
  /\ user_edit_mode_tasks = [u \in Users |-> NoExpiry]
  /\ tasks = [t \in TaskIds |-> NoTask]
  /\ nmsgs = 0
  /\ nscans = 0
  /\ web_request = NoRequest
  /\ ocr = NoCall
  /\ processed_message_ids = {}
  /\ handling = NoUpdate
  /\ call = NoTextCall
  /\ quiet = [u \in Users |-> EDIT_MODE_DELAY]
  /\ ev = Event("init", "", "", FALSE, NoData, <<>>, FALSE)
  /\ preCells = cells

\* lines 2062-2088: the mode and original_data are read from the maps and
\* extract_payment_data_buffered is applied to the texts of the buffer
Extract(u) ==
  /\ ev.op = "init"
  /\ LET is_edit_mode == user_edit_mode[u]
         original_data == IF is_edit_mode THEN user_last_submissions[u] ELSE <<>>
     IN ev' = Event("extract", u, "", is_edit_mode,
                    ExtractPaymentDataBuffered(user_message_buffers[u], is_edit_mode,
                                               original_data),
                    original_data, FALSE)
  /\ preCells' = cells
  /\ UNCHANGED << cells, sheetFmt, sheets_cache, user_message_buffers,
                  user_buffer_tasks, user_edit_mode, user_edit_mode_tasks,
                  user_last_submissions, tasks, nmsgs, nscans, quiet, web_request,
                  ocr,
                  processed_message_ids, handling, call >>

\* ------------------------------------- handle_message before the append
MaxUpdates == 4     \* updates delivered to handle_message in one behaviour

\* the user a message of the chat was sent by
Sender(message_id) == IF message_id = 1 THEN "u1" ELSE "u2"

\* what the OCR of a downloaded photo returns: the text of the receipt, or
\* '' because the image holds no text ("empty") or because every attempt
\* failed ("failed")
OcrResults == { "text", "empty", "failed" }

\* the fields found in a photo: those of the receipt when the OCR read it,
\* otherwise those of the caption, which names the house
PhotoReceipt(ocr_result, caption) ==
  IF ocr_result = "text" THEN BaseReceipt
  ELSE IF caption THEN Photo([NoData EXCEPT !.house_number = "101"])
  ELSE Photo(NoData)

\* the handling of the update ends without an append
EndHandling(res, failed) ==
  /\ handling' = [handling EXCEPT !.pc = "idle", !.res = res, !.failed = failed,
                                  !.n = @ + 1]
  /\ ev' = Internal
  /\ preCells' = cells
  /\ UNCHANGED << cells, sheetFmt, sheets_cache, user_message_buffers,
                  user_buffer_tasks, user_edit_mode, user_edit_mode_tasks,
                  user_last_submissions, tasks, nmsgs, nscans, quiet,
                  web_request, ocr, call >>

\* the append of lines 2738-2771 for the update being handled
AppendHandled(message_id, r, failed) ==
  /\ BufferMessage(Sender(message_id), r, message_id)
  /\ handling' = [handling EXCEPT !.pc = "idle", !.res = "Buffered",
                                  !.failed = failed, !.n = @ + 1,
                                  !.message_id = message_id,
                                  !.appended[message_id] = @ + 1]

\* handle_message up to its first await (lines 2604-2715): an update whose
\* key is in processed_message_ids is skipped; one below MIN_MESSAGE_ID is
\* marked as processed and skipped; a photo is fetched; a text message is
\* appended at once
ReceiveUpdate(message_id, is_photo, caption) ==
  /\ handling.pc = "idle"
  /\ handling.n < MaxUpdates
  /\ nmsgs < MaxMsgs
  /\ IF message_id \in processed_message_ids
     THEN /\ EndHandling("Skipped", FALSE)
          /\ UNCHANGED processed_message_ids
     ELSE IF handling.MIN_MESSAGE_ID # 0 /\ message_id < handling.MIN_MESSAGE_ID
     THEN /\ EndHandling("Filtered", FALSE)
          /\ processed_message_ids' = processed_message_ids \cup { message_id }
     ELSE IF is_photo
     THEN /\ handling' = [handling EXCEPT !.pc = "get_file", !.message_id = message_id,
                                          !.u = Sender(message_id),
                                          !.caption = caption, !.failed = FALSE,
                                          !.res = ""]
          /\ ev' = Internal
          /\ preCells' = cells
          /\ UNCHANGED << cells, sheetFmt, sheets_cache, user_message_buffers,
                          user_buffer_tasks, user_edit_mode, user_edit_mode_tasks,
                          user_last_submissions, tasks, nmsgs, nscans, quiet,
                          web_request, ocr, call, processed_message_ids >>
     ELSE AppendHandled(message_id, BaseReceipt, FALSE)

\* await photo.get_file() returns or raises (line 2715); raising leads to
\* the error reply of lines 2725-2730
GetFile(ok) ==
  /\ handling.pc = "get_file"
  /\ handling' = [handling EXCEPT !.pc = IF ok THEN "download" ELSE "reply",
                                  !.failed = ~ok,
                                  !.res = IF ok THEN "" ELSE "DownloadFailed"]
  /\ ev' = Internal
  /\ preCells' = cells
  /\ UNCHANGED << cells, sheetFmt, sheets_cache, user_message_buffers,
                  user_buffer_tasks, user_edit_mode, user_edit_mode_tasks,
                  user_last_submissions, tasks, nmsgs, nscans, quiet,
                  web_request, ocr, call, processed_message_ids >>

\* await file.download_as_bytearray() returns or raises (line 2716); after
\* it the OCR is called (synchronously): without a text and without a
\* caption the error is replied (lines 2720-2724), otherwise the message is
\* appended
Download(ok, ocr_result) ==
  /\ handling.pc = "download"
  /\ IF ~ok \/ (ocr_result # "text" /\ ~handling.caption)
     THEN /\ handling' = [handling EXCEPT !.pc = "reply",
                                          !.failed = ~ok \/ ocr_result = "failed",
                                          !.res = IF ok THEN "NoText"
                                                  ELSE "DownloadFailed"]
          /\ ev' = Internal
          /\ preCells' = cells
          /\ UNCHANGED << cells, sheetFmt, sheets_cache, user_message_buffers,
                          user_buffer_tasks, user_edit_mode, user_edit_mode_tasks,
                          user_last_submissions, tasks, nmsgs, nscans, quiet,
                          web_request, ocr, call, processed_message_ids >>
     ELSE AppendHandled(handling.message_id,
                        PhotoReceipt(ocr_result, handling.caption),
                        ocr_result = "failed")

\* await safe_reply_text of the error returns: handle_message returns
ReplyError ==
  /\ handling.pc = "reply"
  /\ EndHandling(handling.res, handling.failed)
  /\ UNCHANGED processed_message_ids

\* ------------------------------------------------- webapp/api.py
MaxWebRequests == 2  \* requests served by submit_payment in one behaviour

\* the JSON body of a request to submit_payment; beneficiary_valid is the
\* flag the client sends with the beneficiary it read
BaseRequest ==
  [house_number |-> "102", payment_type |-> "water", month |-> "Meskerem",
   amount |-> Amt(700, 0), transaction_id |-> "FT111", is_edit_mode |-> FALSE,
   beneficiary |-> { "SEYOUM", "ASSEFA" }, beneficiary_valid |-> TRUE]

\* requests for houses that have a row in the sheet
WebRequests ==
  { BaseRequest }
  \cup { [BaseRequest EXCEPT !.house_number = "101"] }
  \cup { [BaseRequest EXCEPT !.house_number = "101", !.transaction_id = t] :
           t \in { "", "FT333" } }
  \cup { [BaseRequest EXCEPT !.is_edit_mode = TRUE, !.transaction_id = t] :
           t \in { "", "FT111" } }
  \cup { [BaseRequest EXCEPT !.month = ""] }
  \cup { [BaseRequest EXCEPT !.amount = NoAmount] }
  \cup { [BaseRequest EXCEPT !.beneficiary = {}] }
  \cup { [BaseRequest EXCEPT !.beneficiary = { "KALKIDAN", "TESHOME" },
                             !.beneficiary_valid = FALSE] }

\* the payment data of a request, as the fields of a receipt
RequestData(req) ==
  [house_number |-> req.house_number, amount |-> req.amount,
   transaction_id |-> req.transaction_id, reason |-> req.payment_type,
   month |-> req.month, beneficiary |-> req.beneficiary]

\* check_duplicate_txid of api.py (the definition at line 845 is the one in
\* force): every FT No cell of every row of every sheet, the rows of
\* exclude_house_number left out, compared token by token
WebCheckDuplicateTxid(c, txid, exclude_house_number) ==
  \E k \in CellKeys :
    /\ exclude_house_number = "" \/ k[2] # exclude_house_number
    /\ txid \in SeqToSet(c[k].ref)

\* the required fields pass the validation of lines 1240-1262
WebValid(req) ==
  /\ req.payment_type \in Reasons
  /\ req.month \in MonthNames
  /\ req.amount.v > 0

\* submit_payment up to and including the duplicate check (lines 1228-1305):
\* "" when the request goes on to the writes, the error otherwise; sheets
\* tells whether get_sheets returned the sheets
WebScanOutcome(c, req, sheets) ==
  IF ~WebValid(req) THEN "Invalid"
  ELSE IF ~sheets THEN "LedgerUnavailable"
  ELSE IF req.beneficiary = {} \/ ~req.beneficiary_valid
  THEN "BeneficiaryUnverified"
  ELSE IF req.transaction_id # ""
          /\ WebCheckDuplicateTxid(c, req.transaction_id,
                                   IF req.is_edit_mode THEN req.house_number ELSE "")
  THEN "DuplicateTransaction"
  ELSE ""

\* the amount cell that row[old_txid_col] reads at line 1326: old_txid_col
\* is a 1-based column number used as a 0-based index, which is the amount
\* column of the month after the old one (the Remark column after Pagume)
CellAfterOldEntry(c, last) ==
  LET mi == MonthIndex(last.month) IN
  IF mi + 2 <= Len(ETHIOPIAN_MONTHS) /\ ETHIOPIAN_MONTHS[mi + 2] \in SeqToSet(LedgerMonths)
  THEN c[<< last.payment_type, last.house_number, ETHIOPIAN_MONTHS[mi + 2] >>].amt
  ELSE <<>>

\* lines 1307-1331: in edit mode with a last submission, the old cell pair
\* is cleared when the cell read at line 1326 equals the old transaction ID,
\* which a non-empty ID never does: both are empty or nothing is cleared
WebDeleteOldEntry(c, req, last) ==
  IF req.is_edit_mode /\ last # <<>>
     /\ last[1].house_number \in Houses
     /\ last[1].transaction_id = "" /\ CellAfterOldEntry(c, last[1]) = <<>>
  THEN [c EXCEPT ![<< last[1].payment_type, last[1].house_number, last[1].month >>] =
                   EmptyCell]
  ELSE c

\* lines 1333-1366 for a house that has a row: update_cell overwrites the
\* amount cell with the amount, and the FT No cell with the transaction ID
\* when one was given
WebWriteCells(c, req) ==
  LET k == << req.payment_type, req.house_number, req.month >> IN
  [c EXCEPT ![k] = [amt |-> << NumberText(req.amount.v) >>,
                    ref |-> IF req.transaction_id # ""
                            THEN << req.transaction_id >> ELSE @.ref]]

\* writes that check for a duplicate once more, on the ledger as it is when
\* they are made
WebWriteOutcomeRescans(c, req, last) ==
  IF req.transaction_id # ""
     /\ WebCheckDuplicateTxid(c, req.transaction_id,
                              IF req.is_edit_mode THEN req.house_number ELSE "")
  THEN c
  ELSE WebWriteCells(WebDeleteOldEntry(c, req, last), req)

\* what lines 1307-1381 leave of the ledger
WebWriteOutcome(c, req, last) == WebWriteCells(WebDeleteOldEntry(c, req, last), req)

\* submit_payment, from the request to the result of check_duplicate_txid
WebSubmitScan(req, up) ==
  /\ web_request.st = "idle"
  /\ web_request.n < MaxWebRequests
  /\ req.house_number \in Houses
  /\ LET sheets == web_request.cached \/ up
         res == WebScanOutcome(cells, req, sheets)
         cached == web_request.cached \/ (WebValid(req) /\ up)
     IN
     /\ web_request' =
          IF res = ""
          THEN [web_request EXCEPT !.st = "scanned", !.req = << req >>,
                                   !.cached = cached, !.n = @ + 1]
          ELSE [web_request EXCEPT !.cached = cached, !.n = @ + 1]
     /\ ev' = Event("web_scan", "", res, req.is_edit_mode, RequestData(req), <<>>, FALSE)
  /\ preCells' = cells
  /\ UNCHANGED << cells, sheetFmt, sheets_cache, user_message_buffers,
                  user_buffer_tasks, user_edit_mode, user_edit_mode_tasks,
                  user_last_submissions, tasks, nmsgs, nscans, quiet, ocr,
                  processed_message_ids, handling, call >>

\* submit_payment, from the deletion of the old entry to the response
WebSubmitWrite ==
  /\ web_request.st = "scanned"
  /\ LET req == web_request.req[1] IN
     /\ cells' = WebWriteOutcome(cells, req, web_request.last)
     /\ web_request' = [web_request EXCEPT !.st = "idle", !.req = <<>>,
                                           !.last = << req >>]
     /\ ev' = Event("web_write", "", "saved", req.is_edit_mode, RequestData(req),
                    <<>>, FALSE)
  /\ preCells' = cells
  /\ UNCHANGED << sheetFmt, sheets_cache, user_message_buffers,
                  user_buffer_tasks, user_edit_mode, user_edit_mode_tasks,
                  user_last_submissions, tasks, nmsgs, nscans, quiet, ocr,
                  processed_message_ids, handling, call >>

\* ------------------------------------------------ extract_text_from_image
max_retries == 3

\* what one requests.post to the OCR service ends in: "text" (status 200,
\* not errored, ParsedResults[0].ParsedText read), "errored" (status 200,
\* IsErroredOnProcessing), "status" (another status code), "timeout"
\* (requests.exceptions.Timeout after timeout_seconds), "exception" (any
\* other exception, a malformed response included)
OcrOutcomes == { "text", "errored", "status", "timeout", "exception" }

\* the parsed text of a response; it may be empty
OcrTexts == { "", "RECEIPT" }

\* the callers: extract_text_from_image of the bot, extract_text_with_ocrspace
\* of the web app (which decodes its base64 argument first)
OcrCallers == { "bot", "web" }

\* a loop that runs one attempt more
LastAttemptOffByOne(attempt) == attempt = max_retries + 1

\* range(1, max_retries + 1) is exhausted after this attempt
LastAttempt(attempt) == attempt = max_retries

\* one iteration of the loop of lines 762-809: the request is made; a parsed
\* text is returned; after a failure the next iteration follows, or '' is
\* returned when that was the last one (from the except clauses, or from
\* line 811 after the loop)
OcrAfterAttempt(o, outcome, text) ==
  LET logged == Append(o.log, [outcome |-> outcome,
                               text |-> IF outcome = "text" THEN text ELSE ""])
  IN IF outcome = "text"
     THEN [o EXCEPT !.pc = "done", !.log = logged, !.result = text]
     ELSE IF LastAttempt(o.attempt)
     THEN [o EXCEPT !.pc = "done", !.log = logged, !.result = ""]
     ELSE [o EXCEPT !.attempt = @ + 1, !.log = logged]

\* the function is called: the loop is entered with attempt 1; the web app
\* returns '' at once when its argument cannot be decoded
OcrStart(who, decode_ok) ==
  /\ ocr.pc = "idle"
  /\ who = "bot" => decode_ok
  /\ ocr' = IF decode_ok
            THEN [ocr EXCEPT !.pc = "running", !.who = who, !.attempt = 1]
            ELSE [ocr EXCEPT !.pc = "done", !.who = who, !.result = ""]
  /\ ev' = Internal
  /\ preCells' = cells
  /\ UNCHANGED << cells, sheetFmt, sheets_cache, user_message_buffers,
                  user_buffer_tasks, user_edit_mode, user_edit_mode_tasks,
                  user_last_submissions, tasks, nmsgs, nscans, quiet, web_request,
                  processed_message_ids, handling, call >>

\* one OCR request and what follows it
OcrAttempt(outcome, text) ==
  /\ ocr.pc = "running"
  /\ outcome # "text" => text = ""
  /\ ocr' = OcrAfterAttempt(ocr, outcome, text)
  /\ ev' = Internal
  /\ preCells' = cells
  /\ UNCHANGED << cells, sheetFmt, sheets_cache, user_message_buffers,
                  user_buffer_tasks, user_edit_mode, user_edit_mode_tasks,
                  user_last_submissions, tasks, nmsgs, nscans, quiet, web_request,
                  processed_message_ids, handling, call >>

\* the session machine: updates, timers and finalize tasks interleaved at
\* every await
Next ==
  \/ \E u \in Users, r \in SessionReceipts : HandleMessage(u, r)
  \/ \E u \in Users : HandleEditCommand(u)
  \/ \E u \in Users : HandleEditButton(u)
  \/ Tick
  \/ \E u \in Users : ExpireEditMode(u)
  \/ \E t \in TaskIds : Wake(t)
  \/ \E t \in TaskIds, o \in CopyOutcomes, a \in BOOLEAN, up \in BOOLEAN :
       CopyMessage(t, o, a, up)
  \/ \E t \in TaskIds, a \in BOOLEAN, up \in BOOLEAN : DeleteCopy(t, a, up)
  \/ \E t \in TaskIds, ok \in BOOLEAN : Reply(t, ok)
  \/ \E t \in TaskIds, ok \in BOOLEAN : ErrReply(t, ok)

Spec == Init /\ [][Next]_vars

\* the receipts of the session machine when receipts are sent again: a
\* complete one, and one that shows no transaction ID
ResendReceipts == { BaseReceipt, [BaseReceipt EXCEPT !.transaction_id = ""] }

\* the session machine with those receipts
ResendNext ==
  \/ \E u \in Users, r \in ResendReceipts : HandleMessage(u, r)
  \/ \E u \in Users : HandleEditCommand(u)
  \/ \E u \in Users : HandleEditButton(u)
  \/ Tick
  \/ \E u \in Users : ExpireEditMode(u)
  \/ \E t \in TaskIds : Wake(t)
  \/ \E t \in TaskIds, o \in CopyOutcomes, a \in BOOLEAN, up \in BOOLEAN :
       CopyMessage(t, o, a, up)
  \/ \E t \in TaskIds, a \in BOOLEAN, up \in BOOLEAN : DeleteCopy(t, a, up)
  \/ \E t \in TaskIds, ok \in BOOLEAN : Reply(t, ok)
  \/ \E t \in TaskIds, ok \in BOOLEAN : ErrReply(t, ok)

ResendSpec == Init /\ [][ResendNext]_vars

\* the ledger machine: receipts of every kind, each finalization run to its
\* end before the next update
LedgerNext ==
  \/ \E u \in Users, r \in Receipts, a \in BOOLEAN, up \in BOOLEAN,
        fail \in WriteFailures :
       FinalizeRun(u, r, a, up, fail)
  \/ \E u \in Users : HandleEditCommand(u)
  \/ \E u \in Users : HandleEditButton(u)
  \/ \E r \in Receipts, up \in BOOLEAN : RescanSave(r, up)

LedgerSpec == LedgerInit /\ [][LedgerNext]_vars

\* the ledger machine started on a spreadsheet whose worksheets have an
\* older layout
MigrationInit == InitWith({ OldFormat }, { EmptyLedger, PrefilledLedger })

MigrationSpec == MigrationInit /\ [][LedgerNext]_vars

\* the bot and the web app as two processes writing the same spreadsheet:
\* the chat finalizations run to their end, the web request is interleaved
\* with them between its duplicate check and its writes
WebInit == InitWith({ "ok" }, { EmptyLedger, PrefilledLedger })

WebNext ==
  \/ \E u \in Users, r \in SessionReceipts : FinalizeRun(u, r, TRUE, TRUE, "none")
  \/ \E req \in WebRequests, up \in BOOLEAN : WebSubmitScan(req, up)
  \/ WebSubmitWrite

WebSpec == WebInit /\ [][WebNext]_vars

\* one call of the OCR function; the call is synchronous and every request
\* returns or raises within timeout_seconds, so the loop is never suspended
\* for ever
OcrNext ==
  \/ \E who \in OcrCallers, decode_ok \in BOOLEAN : OcrStart(who, decode_ok)
  \/ \E outcome \in OcrOutcomes, text \in OcrTexts : OcrAttempt(outcome, text)

OcrSpec == Init /\ [][OcrNext]_vars /\ WF_vars(OcrNext)

\* ----------------------------------------- the text functions on their own
MaxPieces == 3      \* pieces of a beneficiary text

BeneficiaryTexts ==
  LET P == WordPieces \cup SeparatorPieces IN
  UNION { [1..n -> P] : n \in 0..MaxPieces }

\* the state in which a text function is called on an argument
TextCallInit(fn, args) ==
  /\ cells = EmptyLedger
  /\ sheetFmt = [r \in Reasons |-> "ok"]
  /\ sheets_cache = FALSE
  /\ user_message_buffers = [u \in Users |-> <<>>]
  /\ user_buffer_tasks = [u \in Users |-> 0]
  /\ user_edit_mode = [u \in Users |-> FALSE]
  /\ user_edit_mode_tasks = [u \in Users |-> NoExpiry]
  /\ user_last_submissions = [u \in Users |-> <<>>]
  /\ tasks = [t \in TaskIds |-> NoTask]
  /\ nmsgs = 0
  /\ nscans = 0
  /\ web_request = NoRequest
  /\ ocr = NoCall
  /\ processed_message_ids = {}
  /\ handling = NoUpdate
  /\ \E arg \in args : call = [fn |-> fn, arg |-> arg, out |-> <<>>, st |-> "called"]
  /\ quiet = [u \in Users |-> EDIT_MODE_DELAY]
  /\ ev = Event("init", "", "", FALSE, NoData, <<>>, FALSE)
  /\ preCells = cells

\* the function returns
TextCallReturn(out) ==
  /\ call.st = "called"
  /\ call' = [call EXCEPT !.out = out, !.st = "returned"]
  /\ ev' = Internal
  /\ preCells' = cells
  /\ UNCHANGED << cells, sheetFmt, sheets_cache, user_message_buffers,
                  user_buffer_tasks, user_edit_mode, user_edit_mode_tasks,
                  user_last_submissions, tasks, nmsgs, nscans, quiet,
                  web_request, ocr, processed_message_ids, handling >>

\* validate_beneficiary applied to every text of at most MaxPieces pieces
BeneficiaryNext == TextCallReturn(ValidateBeneficiaryText(call.arg))

BeneficiarySpec ==
  TextCallInit("validate_beneficiary", BeneficiaryTexts) /\ [][BeneficiaryNext]_vars

MaxWords == 2       \* words of a text given to convert_to_ethiopian_month

\* the spellings of the three tables, and words that are none of them
TableSpellings ==
  SeqToSet(EthiopianSpellings)
  \cup { AMHARIC_TO_ETHIOPIAN[i][1] : i \in 1..Len(AMHARIC_TO_ETHIOPIAN) }
  \cup { GREGORIAN_TO_ETHIOPIAN[i][1] : i \in 1..Len(GREGORIAN_TO_ETHIOPIAN) }

OtherWords == { "house", "507", "remark", "entire", "am:kutir", "am:bet" }

MonthTexts ==
  UNION { [1..n -> TableSpellings \cup OtherWords] : n \in 0..MaxWords }

\* convert_to_ethiopian_month applied to every text of at most MaxWords words
MonthNext == TextCallReturn(ConvertToEthiopianMonth(call.arg))

MonthSpec ==
  TextCallInit("convert_to_ethiopian_month", MonthTexts) /\ [][MonthNext]_vars

MaxRow == 10        \* last sheet row addressed

\* a month column pair and a data row of the sheet (rows 1-2 are headers)
AddressArgs == [month_index : 0..(Len(ETHIOPIAN_MONTHS) - 1), row : 3..MaxRow]

\* the old-entry clearing and the write path each compute the addresses
\* of the cell pair of a month in a row
AddressNext ==
  TextCallReturn([clear |-> ClearAddresses(FtnoColIdx(call.arg.month_index),
                                           call.arg.row),
                  write |-> WriteAddresses(call.arg.month_index, call.arg.row)])

AddressSpec ==
  TextCallInit("cell_address", AddressArgs) /\ [][AddressNext]_vars

\* extract_payment_data_buffered applied to every buffer, mode and last
\* submission
ExtractNext == \E u \in Users : Extract(u)

ExtractSpec == ExtractInit /\ [][ExtractNext]_vars

\* handle_message from the arrival of an update: updates are handled one
\* after the other (the Application is built without concurrent_updates);
\* an update of a message may arrive again (the message was edited)
InboxInit ==
  /\ cells = EmptyLedger
  /\ sheetFmt = [r \in Reasons |-> "ok"]
  /\ sheets_cache = FALSE
  /\ user_message_buffers = [u \in Users |-> <<>>]
  /\ user_buffer_tasks = [u \in Users |-> 0]
  /\ user_edit_mode = [u \in Users |-> FALSE]
  /\ user_edit_mode_tasks = [u \in Users |-> NoExpiry]
  /\ user_last_submissions = [u \in Users |-> <<>>]
  /\ tasks = [t \in TaskIds |-> NoTask]
  /\ nmsgs = 0
  /\ nscans = 0
  /\ web_request = NoRequest
  /\ ocr = NoCall
  /\ processed_message_ids = {}
  /\ \E min_id \in { 0, MaxMessageId } :
       handling = [NoUpdate EXCEPT !.MIN_MESSAGE_ID = min_id]
  /\ call = NoTextCall
  /\ quiet = [u \in Users |-> EDIT_MODE_DELAY]
  /\ ev = Event("init", "", "", FALSE, NoData, <<>>, FALSE)
  /\ preCells = cells

InboxNext ==
  \/ \E m \in MessageIds, is_photo \in BOOLEAN, caption \in BOOLEAN :
       ReceiveUpdate(m, is_photo, caption)
  \/ \E ok \in BOOLEAN : GetFile(ok)
  \/ \E ok \in BOOLEAN, ocr_result \in OcrResults : Download(ok, ocr_result)
  \/ ReplyError

InboxSpec == InboxInit /\ [][InboxNext]_vars

TypeOK ==
  /\ nmsgs \in 0..(MaxMsgs + MaxRuns)
  /\ \A u \in Users : user_buffer_tasks[u] \in 0..MaxMsgs

\* ================================================================= claims
Rejections ==
  { "MissingAmount", "BeneficiaryUnverified", "DuplicateTransaction",
    "UnknownHouse", "UnknownMonth" }

\* the cell pair a finalization or a save addresses
TargetKey(d) == << d.reason, d.house_number, d.month >>

\* txid is a token of a reference cell of ledger c
TokenRecorded(c, txid) == \E k \in CellKeys : txid \in SeqToSet(c[k].ref)

IsPrefix(a, b) == Len(a) <= Len(b) /\ SubSeq(b, 1, Len(a)) = a

\* the last step was an accepted new-submission write: a finalization saved
\* in new-submission mode, or a save_to_sheets of the history scan
AcceptedNewWrite ==
  \/ ev.op = "finalize" /\ ~ev.edit /\ ev.res = "SAVED"
  \/ ev.op = "rescan" /\ ev.res = "saved"

\* C3: an accepted new-submission write to a cell pair that holds values
\* keeps every previous amount term and appends the new amount, and keeps
\* every previous transaction ID and appends the new one
C3_WriteKeepsTerms ==
  AcceptedNewWrite =>
    LET k == TargetKey(ev.d) IN
    /\ preCells[k].amt # <<>> =>
         /\ IsPrefix(preCells[k].amt, cells[k].amt)
         /\ Len(cells[k].amt) = Len(preCells[k].amt) + 1
    /\ preCells[k].ref # <<>> =>
         /\ IsPrefix(preCells[k].ref, cells[k].ref)
         /\ Len(cells[k].ref) = Len(preCells[k].ref) + 1

\* the last step was a finalization saved in edit mode
SavedEdit ==
  ev.op = "finalize" /\ ev.edit /\ ev.res = "SAVED" /\ ev.old # <<>>

\* C4: a finalization in edit mode removes nothing but the caller's own
\* previous contribution: every amount term of another value than the
\* caller's previous amount and every transaction ID other than the caller's
\* previous one is still in its cell
C4_EditKeepsOthers ==
  SavedEdit =>
    \A k \in CellKeys :
      /\ \A i \in 1..Len(preCells[k].amt) :
           preCells[k].amt[i].v # ev.old[1].amount.v =>
             \E j \in 1..Len(cells[k].amt) :
               cells[k].amt[j].v = preCells[k].amt[i].v
      /\ \A x \in SeqToSet(preCells[k].ref) :
           x # ev.old[1].transaction_id => x \in SeqToSet(cells[k].ref)

\* C5: after a finalization saved in edit mode, the caller's previous
\* contribution appears in the cell where it was recorded only as the new
\* contribution itself (same cell, same transaction ID, same amount)
C5_EditRemovesOld ==
  SavedEdit =>
    LET old == ev.old[1]
        ko == TargetKey(old)
        kn == TargetKey(ev.d)
    IN /\ (old.transaction_id # "" /\ old.transaction_id \in SeqToSet(cells[ko].ref))
            => (ko = kn /\ ev.d.transaction_id = old.transaction_id)
       /\ (\E j \in 1..Len(cells[ko].amt) : cells[ko].amt[j].v = old.amount.v)
            => (ko = kn /\ ev.d.amount.v = old.amount.v)

\* the finalize tasks of u that are running
LiveTasks(u) == { t \in TaskIds : Live(t) /\ tasks[t].u = u }

\* C6: at every moment at most one finalize task of a user is live; the task
\* a new message replaces takes no further step
C6_OneLiveTask == \A u \in Users : Cardinality(LiveTasks(u)) <= 1

\* C7: the buffer of a user is extracted and reconciled only when the full
\* delay (EDIT_MODE_DELAY when every buffered message was sent in edit mode,
\* MESSAGE_BUFFER_DELAY at least) has passed since their last buffered message
C7_QuietPeriod ==
  ev.op = "finalize" =>
    quiet[ev.u] >= (IF ev.allEdit THEN EDIT_MODE_DELAY ELSE MESSAGE_BUFFER_DELAY)

C9_NoModeMixing ==
  (ev.op = "finalize" /\ ev.edit) => ev.allEdit

SessionRejections ==
  { "MissingAmount", "BeneficiaryUnverified", "DuplicateTransaction" }

\* the session of u is idle: no buffer, no registered finalize task, no
\* edit-mode flag
Idle(u) ==
  /\ user_message_buffers[u] = <<>>
  /\ user_buffer_tasks[u] = 0
  /\ ~user_edit_mode[u]

\* C10: once a finalization rejected for its amount, its beneficiary or a
\* duplicate transaction ID has ended, the session of the user is idle and
\* the ledger is as it was; and the message the user sends next starts a
\* buffer that holds only that message
C10_RejectionReturnsToIdle ==
  /\ ( /\ ev.op \in { "finalize_end", "finalize_error_end", "finalize_crash" }
       /\ ev.res \in SessionRejections ) => (Idle(ev.u) /\ cells = preCells)
  /\ (ev.op = "message" /\ ev.res \in SessionRejections)
       => user_message_buffers[ev.u] = << BufMsg(Photo(ev.d), ev.edit) >>

\* what the code does guarantee: a rejection whose reply was delivered
\* leaves the session idle
RejectionDeliveredIdle ==
  (ev.op = "finalize_end" /\ ev.res \in SessionRejections) => Idle(ev.u)

\* C11: every finalization destroys the session: when it has ended in
\* SAVED, or was rejected for the house, the month or a ledger that could
\* not be opened or written, the buffer of the user is removed and their edit-mode flag is cleared
C11_FinalizationDestroysSession ==
  ( /\ ev.op = "finalize"
    /\ ev.res \in { "SAVED", "UnknownHouse", "UnknownMonth", "LedgerUnavailable",
                    "SaveFailed" } )
  => /\ user_message_buffers[ev.u] = <<>>
     /\ ~user_edit_mode[ev.u]

\* the transaction ID is a token of a reference cell in the row of the house
RecordedInRow(c, house, txid) ==
  \E k \in CellKeys : k[2] = house /\ \E i \in 1..Len(c[k].ref) : c[k].ref[i] = txid

\* a finalization in edit mode of a complete receipt (amount, authorized
\* beneficiary, house and month of the sheet) whose transaction ID was
\* already recorded in the row of its own house, with the ledger opened and
\* no worksheet update raising
OwnEntryResubmitted ==
  /\ ev.op = "finalize"
  /\ ev.edit
  /\ ev.d.amount # NoAmount
  /\ ValidateBeneficiary(ev.d.beneficiary)
  /\ ev.d.house_number \in Houses
  /\ MonthIndex(ev.d.month) # -1
  /\ ev.d.transaction_id # ""
  /\ RecordedInRow(preCells, ev.d.house_number, ev.d.transaction_id)
  /\ ev.res \notin {"LedgerUnavailable", "SaveFailed"}

\* C12: in edit mode the duplicate check does not block the user's own
\* entry: a finalization of a complete receipt whose transaction ID is
\* already recorded in the row of the user's house ends in SAVED
C12_EditNotBlockedByOwnEntry == OwnEntryResubmitted => ev.res = "SAVED"

C12_Witness == OwnEntryResubmitted /\ ev.res = "SAVED"

\* a finalization in edit mode of nothing but a typed number, by a user
\* whose last accepted submission was 500 under FT111: no text of the buffer
\* carries a transaction ID, a month or a beneficiary
BareNumberEdit ==
  /\ ev.op = "finalize"
  /\ ev.edit
  /\ ev.old # <<>>
  /\ ev.old[1].amount = Amt(500, 0)
  /\ ev.old[1].transaction_id = "FT111"
  /\ ev.d.transaction_id = ""
  /\ ev.d.month = ""
  /\ ev.d.beneficiary = {}

\* C13: an edit whose only input is the typed text '700', after a
\* submission of 500 under FT111, ends in SAVED with the house number of
\* that submission and the amount 700, and the cell of that submission no
\* longer holds the 500 or FT111 and holds the 700
C13_BareNumberEditSaved ==
  BareNumberEdit =>
    LET k == TargetKey(ev.old[1]) IN
    /\ ev.res = "SAVED"
    /\ ev.d.house_number = ev.old[1].house_number
    /\ ev.d.amount.v = 700
    /\ "FT111" \notin SeqToSet(cells[k].ref)
    /\ \A i \in 1..Len(cells[k].amt) : cells[k].amt[i].v # 500
    /\ \E i \in 1..Len(cells[k].amt) : cells[k].amt[i].v = 700

\* the extraction part of the scenario does hold: the house number is
\* carried over and the typed number is the amount
BareNumberCarriedOver ==
  BareNumberEdit =>
    /\ ev.d.house_number = ev.old[1].house_number
    /\ ev.d.amount = Amt(700, 0)

\* C14: no ledger write path records a payment that lacks an amount or
\* whose beneficiary is missing or not authorized: every chat finalization
\* that ends in SAVED, and every rescan that saves, is of a receipt with an
\* amount and an authorized beneficiary
C14_WritesAreValidated ==
  ( \/ (ev.op = "finalize" /\ ev.res = "SAVED")
    \/ (ev.op = "rescan" /\ ev.res = "saved") )
  => /\ ev.d.amount # NoAmount
     /\ ValidateBeneficiary(ev.d.beneficiary)

\* the chat finalization alone does validate what it records
ChatWritesAreValidated ==
  (ev.op = "finalize" /\ ev.res = "SAVED")
  => /\ ev.d.amount # NoAmount
     /\ ValidateBeneficiary(ev.d.beneficiary)

\* C15: a ledger failure during a finalization never leaves the ledger
\* partially mutated: when an update raises, every cell equals its content
\* before the finalization
C15_FailureLeavesLedger ==
  (ev.op = "finalize" /\ ev.res = "SaveFailed") => cells = preCells

\* C16: recorded payment data is deleted by an edit-mode replacement only:
\* no other step (setup_sheets in a first use, a new submission, a rejected
\* submission, a scan save) leaves empty an amount cell or a reference cell
\* that held a value
C16_OnlyEditsDelete ==
  ~(ev.op = "finalize" /\ ev.edit)
  => \A k \in CellKeys :
       /\ preCells[k].amt # <<>> => cells[k].amt # <<>>
       /\ preCells[k].ref # <<>> => cells[k].ref # <<>>

\* the web app has just written a new submission whose transaction ID was,
\* when it wrote, already a token of a reference cell other than its own:
\* the ID had passed the duplicate check of the request, so another writer
\* recorded it between that check and the writes
WroteAfterOtherWriter ==
  /\ ev.op = "web_write"
  /\ ~ev.edit
  /\ ev.d.transaction_id # ""
  /\ \E k \in CellKeys :
       k # TargetKey(ev.d) /\ ev.d.transaction_id \in SeqToSet(preCells[k].ref)

\* C17: the duplicate scan and the cell write are not atomic against another
\* writer of the ledger: a web submission whose transaction ID another
\* writer recorded after the scan of the request is written all the same,
\* and the ID is then recorded twice
C17_ScanAndWriteNotAtomic ==
  WroteAfterOtherWriter =>
    /\ ev.res = "saved"
    /\ ev.d.transaction_id \in SeqToSet(cells[TargetKey(ev.d)].ref)
    /\ \E k \in CellKeys :
         k # TargetKey(ev.d) /\ ev.d.transaction_id \in SeqToSet(cells[k].ref)

\* a chat finalization and a web request submitted the same new transaction
\* ID, both passed their duplicate scan, both wrote: two cells hold the ID
C17_Witness ==
  /\ WroteAfterOtherWriter
  /\ \E u \in Users :
       /\ user_last_submissions[u] # <<>>
       /\ user_last_submissions[u][1].transaction_id = ev.d.transaction_id
  /\ Cardinality({ k \in CellKeys : ev.d.transaction_id \in SeqToSet(cells[k].ref) }) = 2

\* C20: a payment submitted through submit_payment for a cell pair that
\* already holds a recorded payment accumulates: every amount term and every
\* transaction ID that the pair held is still there after the save
C20_WebSubmitAccumulates ==
  (ev.op = "web_write" /\ ~ev.edit /\ ev.res = "saved")
  => LET k == TargetKey(ev.d) IN
     /\ IsPrefix(preCells[k].amt, cells[k].amt)
     /\ SeqToSet(preCells[k].ref) \subseteq SeqToSet(cells[k].ref)

\* the attempts of the log that returned a parsed text
Successes(log) == { i \in 1..Len(log) : log[i].outcome = "text" }

\* C18: extract_text_from_image always terminates after at most 3 OCR
\* attempts: no fourth request is made, the result is the parsed text of the
\* first successful attempt, which is the last request made, and the empty
\* string when every attempt failed; every call that was started returns
C18_OcrTerminates ==
  /\ [](/\ Len(ocr.log) <= 3
        /\ ocr.pc = "running" => Successes(ocr.log) = {}
        /\ ocr.pc = "done" =>
             /\ Successes(ocr.log) \subseteq { Len(ocr.log) }
             /\ Successes(ocr.log) # {} => ocr.result = ocr.log[Len(ocr.log)].text
             /\ Successes(ocr.log) = {} =>
                  ocr.result = "" /\ Len(ocr.log) \in { 0, 3 })
  /\ (ocr.pc = "running" ~> ocr.pc = "done")

\* three requests failed, one of them by a timeout, and '' was returned
C18_Witness ==
  /\ ocr.pc = "done"
  /\ Len(ocr.log) = 3
  /\ Successes(ocr.log) = {}
  /\ \E i \in 1..3 : ocr.log[i].outcome = "timeout"
  /\ ocr.result = ""

\* the typed messages of the buffer of the user of the last step
TypedOf(u) == SelectSeq(user_message_buffers[u], LAMBDA m : m.labels # {})

\* the typed text of the user is only a number: one typed message, bare
OnlyANumber(u) == Len(TypedOf(u)) = 1 /\ "bare" \in TypedOf(u)[1].labels

\* the typed text carries an amount label or a month label, and no house
\* label
AmountOrMonthLabelOnly(u) ==
  /\ \E i \in 1..Len(TypedOf(u)) : TypedOf(u)[i].labels \cap { "amount", "month" } # {}
  /\ \A i \in 1..Len(TypedOf(u)) : "house" \notin TypedOf(u)[i].labels

\* C19: in edit mode, when the typed text is only a number, or carries an
\* amount or month label and no house label, extract_payment_data_buffered
\* returns the house number of the previous submission, whatever the caption
\* and the OCR text contain, and for a bare number that number as the amount
C19_EditKeepsHouse ==
  (ev.op = "extract" /\ ev.edit)
  => /\ (OnlyANumber(ev.u) \/ AmountOrMonthLabelOnly(ev.u))
          => ev.d.house_number = user_last_submissions[ev.u][1].house_number
     /\ OnlyANumber(ev.u) => ev.d.amount = TypedOf(ev.u)[1].num

\* the number 407 was typed in edit mode with a photo that reads house 102:
\* the house stays that of the last submission and 407 is the amount
C19_Witness ==
  /\ ev.op = "extract" /\ ev.edit
  /\ OnlyANumber(ev.u)
  /\ TypedOf(ev.u)[1].num = Amt(407, 0)
  /\ \E i \in 1..Len(user_message_buffers[ev.u]) :
       user_message_buffers[ev.u][i].house_number = "102"
  /\ ev.d.house_number = "101"
  /\ ev.d.amount = Amt(407, 0)

\* C21: each inbound message is appended to a buffer at most once; a key is
\* in processed_message_ids only when the message was dropped by the
\* MIN_MESSAGE_ID filter or was appended; and a handling in which the image
\* download or the OCR failed leaves the key of the message absent
C21_ProcessedOnlyWhenHandled ==
  /\ \A m \in MessageIds : handling.appended[m] <= 1
  /\ \A m \in processed_message_ids :
       \/ handling.appended[m] = 1
       \/ (handling.MIN_MESSAGE_ID # 0 /\ m < handling.MIN_MESSAGE_ID)
  /\ (handling.pc = "idle" /\ handling.failed)
       => handling.message_id \notin processed_message_ids

\* what the code does guarantee: at most one append, a key only for a
\* filtered or appended message, and no key after a handling that ended in
\* the error reply
KeyAbsentAfterErrorReply ==
  /\ \A m \in MessageIds : handling.appended[m] <= 1
  /\ \A m \in processed_message_ids :
       \/ handling.appended[m] = 1
       \/ (handling.MIN_MESSAGE_ID # 0 /\ m < handling.MIN_MESSAGE_ID)
  /\ (handling.pc = "idle" /\ handling.res \in { "DownloadFailed", "NoText" })
       => handling.message_id \notin processed_message_ids

\* the session of a user: their buffer, their registered finalize task and
\* the finalize tasks created for them (the time they have slept left out),
\* their edit-mode flag and their last submission
Session(u) ==
  [buffer |-> user_message_buffers[u],
   task |-> user_buffer_tasks[u],
   tasks |-> { << t, [tasks[t] EXCEPT !.slept = 0] >> : t \in { x \in TaskIds : tasks[x].u = u } },
   edit |-> user_edit_mode[u],
   last |-> user_last_submissions[u]]

\* C22: sessions are isolated per user of a group: a step taken for one user
\* (a message, an edit request, an edit-mode expiry, a step of a finalize
\* task) leaves the buffer, the pending finalize task, the edit-mode flag and
\* the last submission of every other user unchanged
C22_SessionsIsolated ==
  [][ /\ Cardinality({ u \in Users : Session(u)' # Session(u) }) <= 1
      /\ \A u \in Users : (ev'.u \in Users /\ ev'.u # u) => Session(u)' = Session(u)
    ]_vars

\* a finalization of u2 has just reconciled their buffer while u1 has a
\* message buffered and a finalize task pending
C22_Witness ==
  /\ ev.op = "finalize" /\ ev.u = "u2"
  /\ user_message_buffers["u1"] # <<>>
  /\ user_buffer_tasks["u1"] # 0

\* the words of a text that stand alone: a word piece with a breaking
\* character, or an end of the text, on either side
StandAlone(text) ==
  { Upper(text[i]) : i \in { j \in 1..Len(text) :
      /\ text[j] \in WordPieces
      /\ j = 1 \/ Breaks(text[j - 1])
      /\ j = Len(text) \/ Breaks(text[j + 1]) } }

Canonical(spelling) ==
  IF \E i \in 1..Len(EthiopianSpellings) : EthiopianSpellings[i] = spelling
  THEN ETHIOPIAN_MONTHS[CHOOSE i \in 1..Len(EthiopianSpellings) :
                          EthiopianSpellings[i] = spelling]
  ELSE LET t == AMHARIC_TO_ETHIOPIAN \o GREGORIAN_TO_ETHIOPIAN
       IN t[CHOOSE i \in 1..Len(t) : t[i][1] = spelling][2]

\* C24: convert_to_ethiopian_month returns a month only for a text that
\* names one: a text none of whose words is a spelling of the Ethiopian,
\* Amharic or Gregorian tables gives the empty result, and a table spelling
\* given alone gives the canonical Ethiopian month of its table
C24_MonthOnlyWhenNamed ==
  (call.fn = "convert_to_ethiopian_month" /\ call.st = "returned") =>
    /\ (\A i \in 1..Len(call.arg) : call.arg[i] \notin TableSpellings)
         => call.out = ""
    /\ (Len(call.arg) = 1 /\ call.arg[1] \in TableSpellings)
         => call.out = Canonical(call.arg[1])

\* what the code does guarantee: a spelling given alone is converted to its
\* canonical month
SpellingAloneConverted ==
  ( /\ call.fn = "convert_to_ethiopian_month" /\ call.st = "returned"
    /\ Len(call.arg) = 1 /\ call.arg[1] \in TableSpellings )
  => call.out = Canonical(call.arg[1])

\* the places (cell, position) at which txid is a token of a reference cell
TokenPlaces(c, txid) ==
  UNION { { << k, i >> : i \in { j \in 1..Len(c[k].ref) : c[k].ref[j] = txid } } :
          k \in CellKeys }

TxidsOf(c) == UNION { SeqToSet(c[k].ref) : k \in CellKeys }

\* C25: transaction IDs stay unique in the ledger: after any sequence of new
\* submissions, edit-mode submissions and scan saves, no non-empty
\* transaction ID is a token of two reference cells or twice of one cell
C25_TxidsUnique ==
  \A txid \in TxidsOf(cells) \ { "" } : Cardinality(TokenPlaces(cells, txid)) <= 1

\* what the code does guarantee: a new submission saved from the chat leaves
\* its transaction ID in the ledger exactly once when the ledger held every
\* ID at most once
NewSubmissionKeepsUnique ==
  ( /\ ev.op = "finalize" /\ ~ev.edit /\ ev.res = "SAVED"
    /\ ev.d.transaction_id # ""
    /\ \A txid \in TxidsOf(preCells) \ { "" } :
         Cardinality(TokenPlaces(preCells, txid)) <= 1 )
  => Cardinality(TokenPlaces(cells, ev.d.transaction_id)) = 1

\* a finalization in new-submission mode of a buffer that holds every
\* message the chat has seen, by a user for whom an earlier finalization was
\* saved: the buffer still holds a message that was written to the ledger
BufferAlreadyWritten ==
  /\ ev.op = "finalize" /\ ~ev.edit
  /\ ev.old # <<>>
  /\ Len(user_message_buffers[ev.u]) = nmsgs

\* C26: each buffered receipt is written to the ledger at most once: a
\* finalize task that replaces one cancelled after its ledger write does not
\* add the amount of the receipt that was written to the ledger again,
\* whether the receipt shows a transaction ID or not
C26_WrittenAtMostOnce ==
  BufferAlreadyWritten => cells = preCells

\* what the code does guarantee: a written receipt that shows a transaction
\* ID is not written again, the duplicate check rejects it
ResentWithTxidRejected ==
  (BufferAlreadyWritten /\ ev.old[1].transaction_id # "" /\ ev.res # "LedgerUnavailable")
    => (ev.res = "DuplicateTransaction" /\ cells = preCells)

\* C27: edit mode always ends: a user whose edit-mode flag is set has an
\* expiry task or a finalize task pending, which clears the flag when its
\* timer fires; no user is left in edit mode with neither
C27_EditModeHasPendingTask ==
  \A u \in Users :
    user_edit_mode[u] =>
      (user_edit_mode_tasks[u].st = "sleep" \/ LiveTasks(u) # {})

\* the cell pair addressed by d holds the amount of d as a term and, when d
\* has a transaction ID, that ID as a token
BothCellsWritten(c, d) ==
  /\ TargetKey(d) \in CellKeys
  /\ \E i \in 1..Len(c[TargetKey(d)].amt) : c[TargetKey(d)].amt[i].v = d.amount.v
  /\ d.transaction_id # "" => d.transaction_id \in SeqToSet(c[TargetKey(d)].ref)

\* C28: the last-submission record of a user changes only in a finalization
\* of that user that ended in SAVED, after both the amount cell and the
\* reference cell were written, and becomes the data written; a rejected or
\* failed finalization leaves it unchanged; and edit mode is entered only by
\* a user who has such a record
C28_LastSubmissionOnlyWhenSaved ==
  [][ /\ \A u \in Users :
           user_last_submissions'[u] # user_last_submissions[u] =>
             /\ ev'.op = "finalize" /\ ev'.u = u /\ ev'.res = "SAVED"
             /\ user_last_submissions'[u] = << ev'.d >>
             /\ BothCellsWritten(cells', ev'.d)
      /\ \A u \in Users :
           (user_edit_mode'[u] /\ ~user_edit_mode[u]) => user_last_submissions[u] # <<>>
    ]_vars

\* the update of the reference cell raised after the amount was written: the
\* ledger changed, the record of the user did not
C28_Witness ==
  /\ ev.op = "finalize" /\ ev.res = "SaveFailed"
  /\ cells # preCells
  /\ ev.old # <<>>
  /\ user_last_submissions[ev.u] = ev.old
  /\ ev.d # ev.old[1]

\* the step is a finalization saved in new-submission mode
NewSubmissionSaved == ev'.op = "finalize" /\ ~ev'.edit /\ ev'.res = "SAVED"

\* every cell pair other than the one addressed by d is as it was
OtherCellsKept(d) ==
  \A k \in CellKeys \ { TargetKey(d) } : cells'[k] = cells[k]

\* C29: an accepted new submission changes the amount cell and the
\* reference-id cell at (sheet of the reason, row of the house, column pair
\* of the month) and nothing else: every other cell of every sheet is as it
\* was, and no worksheet gains or loses a row (the TOTAL row included)
C29_WritesOnlyTheTargetPair ==
  [][ NewSubmissionSaved =>
        /\ OtherCellsKept(ev'.d)
        /\ sheetFmt' = sheetFmt ]_vars

\* with the group's worksheets already cached, an accepted new submission
\* changes the amount cell of the addressed pair and changes nothing outside
\* that pair, rows included
CachedSheetsWriteOnlyTheTargetPair ==
  [][ (NewSubmissionSaved /\ sheets_cache) =>
        /\ OtherCellsKept(ev'.d)
        /\ sheetFmt' = sheetFmt
        /\ cells'[TargetKey(ev'.d)].amt # cells[TargetKey(ev'.d)].amt ]_vars

\* an address is a cell address when its column is made of capital letters
ValidAddress(a) ==
  /\ a.col # <<>>
  /\ \A i \in 1..Len(a.col) : a.col[i] \in SeqToSet(Letters)
  /\ a.row >= 1

\* C30: for each of the 13 months, the addresses the edit-mode old-entry
\* clearing computes for the amount and the reference-id cell (column
\* indices 3+2i and 4+2i) are valid cell addresses and are the addresses
\* col_idx_to_letter gives the write path, the columns beyond Z included
C30_SameAddresses ==
  (call.fn = "cell_address" /\ call.st = "returned") =>
    /\ call.out.clear = call.out.write
    /\ \A j \in 1..2 : ValidAddress(call.out.clear[j])

\* the write path's addresses are valid for every month, and the clearing
\* computes the same addresses for the columns up to Z
SameAddressesUpToZ ==
  (call.fn = "cell_address" /\ call.st = "returned") =>
    /\ \A j \in 1..2 : ValidAddress(call.out.write[j])
    /\ AmountColIdx(call.arg.month_index) <= 25
         => call.out.clear[1] = call.out.write[1]
    /\ FtnoColIdx(call.arg.month_index) <= 25
         => call.out.clear[2] = call.out.write[2]
    /\ call.arg.month_index = 12 =>
         call.out.write = << [col |-> << "A", "B" >>, row |-> call.arg.row],
                             [col |-> << "A", "C" >>, row |-> call.arg.row] >>

====
